---------------------------- MODULE Spec2Model ----------------------------
(***************************************************************************)
(* Smart e-meter firmware (ESP32 + INA219 + Edge Impulse + OLED) and its   *)
(* WebSerial dashboard.                                                    *)
(*                                                                         *)
(* Specifications over one set of variables:                               *)
(*   SpecStore   set_metrics / get_metrics at the granularity of one field *)
(*               of the struct copy, with the FreeRTOS mutex;              *)
(*   SpecCmd     taskSerial: handleSerialInput / parseCommandByte, byte by *)
(*               byte, fed by a host that sends lines;                     *)
(*   Spec        taskML (one action per sample and per classifier run)     *)
(*               together with the command worker at line granularity;     *)
(*   SpecDecide  taskML alone, classifier values on a fine grid;           *)
(*   SpecVote    taskML alone over MaxWindows windows, values in tenths;   *)
(*   SpecDisplay taskDisplay with taskML and the command worker;           *)
(*   SpecBar     taskDisplay drawing any snapshot (the bars of drawLoading *)
(*               and drawRun as functions of progress and theft);          *)
(*   SpecPack    taskML for every window size and number of axes;          *)
(*   SpecTime    taskML with the kernel's tick count;                      *)
(*   SpecSched   taskSerial polling while the other tasks use the store;   *)
(*   SpecHost    the device with the dashboard (parseLine, Dashboard,      *)
(*               MapView);                                                 *)
(*   SpecRead    readLoop of the dashboard, chunk by chunk.                *)
(*                                                                         *)
(* float values are modelled as exact reduced fractions <<num, den>>.      *)
(***************************************************************************)
EXTENDS Integers, Sequences, FiniteSets, TLC

VARIABLES
  g_last,           \* static Metrics g_last
  g_last_mtx,       \* TRUE iff the handle g_last_mtx is non-null
  mtx_owner,        \* task holding the mutex, or NoOwner
  pc,               \* per task: position inside set_metrics / get_metrics
  loc,              \* per task: the Metrics argument (set) or local m (get)
  idx,              \* per task: number of fields of the struct copy done
  written,          \* history: arguments of the set_metrics calls that returned after copying
  relay,            \* level of RELAY_PIN as relayIsOn() reads it
  buf,              \* parseCommandByte: buf[0 .. len-1]
  rx,               \* bytes waiting in the Serial receive buffer
  consumed,         \* history: every byte handed to parseCommandByte so far
  cmd_log,          \* history: relayWrite / println calls of the command worker, in order
  poll_log,         \* the relayWrite / println calls made by the latest poll
  poll_lock,        \* history: the task that held the mutex during the latest poll
  host_lines,       \* number of line terminators the host has sent
  host_crs,         \* number of carriage returns the host has sent
  host_cur,         \* the bytes of the line the host is sending that are still to send
  theft_prob_ewma,  \* static float theft_prob_ewma
  vote_hist,        \* static int vote_hist[VOTE_N]
  vote_hist_idx,    \* static int vote_hist_idx
  first_window,     \* taskML: bool first_window
  n,                \* taskML: inner loop counter n
  ix,               \* taskML: size_t ix
  sums,             \* taskML: sumV, sumI, sumP
  features,         \* static float features[kTotalLen]
  led,              \* level of STATUS_LED
  ml_log,           \* the output / snapshot effects of the latest taskML step, in order
  windows,          \* history: number of classifier runs so far
  probs,            \* history: theft_prob of every successfully classified window
  result,           \* taskML: ei_impulse_result_t result (<<>> outside its lifetime)
  ei_labels,        \* the labels of the Edge Impulse model the firmware is built with
  raw_count,        \* EI_CLASSIFIER_RAW_SAMPLE_COUNT of that model
  frame_size,       \* EI_CLASSIFIER_DSP_INPUT_FRAME_SIZE of that model
  samples,          \* history: V, I, P, R of the samples of the current window
  packed,           \* history: the slots of features written in the current window
  period,           \* taskML: const TickType_t period
  tick,             \* taskML: TickType_t tick
  tick_start,       \* history: the value xTaskGetTickCount() gave taskML at its start
  now,              \* the tick count of the kernel (xTaskGetTickCount)
  boot_frames,      \* taskDisplay: uint16_t boot_frames
  view,             \* the frame taskDisplay drew last
  data,             \* Dashboard: data (<<>> for null, else <<DeviceData>>)
  relayOn,          \* Dashboard: relayOn
  alerts,           \* Dashboard: alerts
  map_ready,        \* MapView: mapInstanceRef.current is set
  markers,          \* MapView: the alerts that have a marker on the map
  map_stale,        \* MapView: the effect on [isClient, alerts, ...] is due to run
  host_seen,        \* the number of windows whose output line readLoop has delivered
  delivered,        \* history: the chunks reader.read() has returned so far
  text_read,        \* history: the text read so far (the chunks, concatenated)
  buffer,           \* readLoop: let buffer
  parse_log         \* history: the arguments of the calls of parseLine, in order

storeVars == <<g_last_mtx, mtx_owner, pc, loc, idx, written>>
cmdVars   == <<buf, rx, consumed, cmd_log, poll_log, poll_lock, host_lines, host_crs,
               host_cur>>
mlVars    == <<theft_prob_ewma, vote_hist, vote_hist_idx, first_window, n, ix, sums,
               features, led, ml_log, windows, probs, result, ei_labels,
               raw_count, frame_size, samples, packed>>
dispVars  == <<boot_frames, view>>
timeVars  == <<period, tick, tick_start, now>>
hostVars  == <<data, relayOn, alerts, map_ready, markers, map_stale, host_seen,
               delivered, text_read, buffer, parse_log>>
vars      == <<g_last, relay, storeVars, cmdVars, mlVars, dispVars, timeVars, hostVars>>

\* what the steps of the store, of the command worker, of taskML and of
\* taskDisplay leave alone
outsideStore   == <<relay, cmdVars, mlVars, dispVars, timeVars, hostVars>>
outsideCmd     == <<g_last, storeVars, mlVars, dispVars, timeVars, hostVars>>
outsideML      == <<relay, storeVars, cmdVars, dispVars, period, tick_start, hostVars>>
outsideDisplay == <<g_last, relay, storeVars, cmdVars, mlVars, timeVars, hostVars>>
outsideTime    == <<g_last, relay, storeVars, cmdVars, mlVars, dispVars, hostVars>>
outsideHost    == <<g_last, relay, storeVars, mlVars, dispVars, timeVars>>

----------------------------------------------------------------------------
(* Bounds of the model *)

NumArgs    == 2   \* distinct snapshots the store's callers write in SpecStore
MaxLines   == 2   \* line terminators the host sends in SpecCmd
MaxCR      == 1   \* carriage returns the host inserts in SpecCmd
MaxRx      == 2   \* bytes the receive buffer holds between two polls
OverLen    == 2   \* bytes by which the overlong lines exceed the buffer
MaxWindows == 4   \* classifier runs in Spec
MaxCmds    == 1   \* command lines the host sends in Spec
SchedLines == 2   \* command lines the host sends in SpecSched
HostWindows == 3  \* classifier runs in SpecHost
HostToggles == 2  \* clicks on the relay button in SpecHost
PScale     == 2   \* classifier values are multiples of 1/PScale
DecideWindows == 2   \* classifier runs in SpecDecide
MaxRawCount   == 3   \* largest window size N in SpecPack
MaxAxes       == 6   \* largest number of axes per sample A in SpecPack
PackWindows   == 2   \* classifier runs in SpecPack
MaxText       == 5   \* characters the port delivers in SpecRead
TickWrap      == 16  \* the tick count wraps at TickWrap (TickType_t: at 2^32)
MaxPeriod     == 3   \* largest sampling period, in ticks, in SpecTime
MaxLate       == 4   \* most ticks that pass in one step of SpecTime
TimeWindows   == 3   \* classifier runs in SpecTime
FineScale     == 20  \* classifier values are multiples of 1/FineScale in SpecDecide
VoteScale     == 10  \* classifier values are multiples of 1/VoteScale in SpecVote
BarScale      == 8   \* progress and theft are multiples of 1/BarScale in SpecBar

----------------------------------------------------------------------------
(* float arithmetic on exact fractions *)

RECURSIVE GCD(_, _)
GCD(a, b) == IF b = 0 THEN a ELSE GCD(b, a % b)

Abs(x) == IF x < 0 THEN -x ELSE x

Frac(num, den) ==
  LET g == GCD(Abs(num), den) IN <<num \div g, den \div g>>

RAdd(a, b) == Frac(a[1] * b[2] + b[1] * a[2], a[2] * b[2])
RSub(a, b) == Frac(a[1] * b[2] - b[1] * a[2], a[2] * b[2])
RMul(a, b) == Frac(a[1] * b[1], a[2] * b[2])
RGe(a, b)  == a[1] * b[2] >= b[1] * a[2]
RGt(a, b)  == a[1] * b[2] > b[1] * a[2]
Zero == Frac(0, 1)
One  == Frac(1, 1)

----------------------------------------------------------------------------
(* Edge Impulse model configuration *)

\* the model header the firmware is built with in every specification but
\* SpecPack, which draws the two sizes at startup
BuildRawCount  == 2
BuildFrameSize == 8
BuildPeriod    == 1      \* pdMS_TO_TICKS((uint32_t)EI_CLASSIFIER_INTERVAL_MS)

kRawCount  == raw_count               \* EI_CLASSIFIER_RAW_SAMPLE_COUNT
kTotalLen  == frame_size              \* EI_CLASSIFIER_DSP_INPUT_FRAME_SIZE
kModelAxes == kTotalLen \div kRawCount

----------------------------------------------------------------------------
(* Metrics, g_last *)

UiPhase == <<"UI_BOOT", "UI_LOADING", "UI_RUN", "UI_ALERT">>

\* the members of struct Metrics, in declaration order (the order of a struct copy)
Fields == <<"V", "I", "P", "theft", "alert", "relay", "phase", "progress">>

\* static Metrics g_last = {0,0,0,0,false,false, UI_BOOT, 0.0f}
Startup ==
  [V |-> Zero, I |-> Zero, P |-> Zero, theft |-> Zero, alert |-> FALSE,
   relay |-> FALSE, phase |-> "UI_BOOT", progress |-> Zero]

----------------------------------------------------------------------------
(* Shared state store: set_metrics / get_metrics, one field per step *)

Tasks   == {"Serial", "ML", "Display"}
NoOwner == "none"

\* a snapshot a caller passes to set_metrics; k = 1 .. NumArgs gives distinct values
ArgMetrics(k) ==
  [V |-> Frac(230 + k, 1), I |-> Frac(k, 2), P |-> Frac((230 + k) * k, 2),
   theft |-> Frac(k, NumArgs + 1), alert |-> (k % 2 = 1), relay |-> (k % 2 = 0),
   phase |-> UiPhase[2 + (k % 3)], progress |-> Frac(k, NumArgs)]

Args == {ArgMetrics(k) : k \in 1..NumArgs}

C1_MutexFreeAlways == TRUE

\* xSemaphoreTake(g_last_mtx, portMAX_DELAY) returns pdTRUE once the mutex is free
MutexFree == mtx_owner = NoOwner

\* copy of member number i of a Metrics value into another
CopyField(dst, src, i) == [dst EXCEPT ![Fields[i]] = src[Fields[i]]]

\* a task calls set_metrics(m)
SetCall(w, m) ==
  /\ pc[w] = "idle"
  /\ pc' = [pc EXCEPT ![w] = "set_test"]
  /\ loc' = [loc EXCEPT ![w] = m]
  /\ idx' = [idx EXCEPT ![w] = 0]
  /\ UNCHANGED <<g_last, g_last_mtx, mtx_owner, written>>
  /\ UNCHANGED outsideStore

\* if (g_last_mtx && xSemaphoreTake(...) == pdTRUE): handle present, mutex obtained
SetTake(w) ==
  /\ pc[w] = "set_test"
  /\ g_last_mtx
  /\ MutexFree
  /\ mtx_owner' = w
  /\ pc' = [pc EXCEPT ![w] = "set_copy"]
  /\ UNCHANGED <<g_last, g_last_mtx, loc, idx, written>>
  /\ UNCHANGED outsideStore

\* if (g_last_mtx && ...) with a null handle: set_metrics has no else branch
SetNoMutex(w) ==
  /\ pc[w] = "set_test"
  /\ ~g_last_mtx
  /\ pc' = [pc EXCEPT ![w] = "set_ret"]
  /\ UNCHANGED <<g_last, g_last_mtx, mtx_owner, loc, idx, written>>
  /\ UNCHANGED outsideStore

\* g_last = m, one member at a time
SetCopy(w) ==
  /\ pc[w] = "set_copy"
  /\ g_last' = CopyField(g_last, loc[w], idx[w] + 1)
  /\ idx' = [idx EXCEPT ![w] = idx[w] + 1]
  /\ pc' = [pc EXCEPT ![w] = IF idx[w] + 1 = Len(Fields) THEN "set_give" ELSE "set_copy"]
  /\ UNCHANGED <<g_last_mtx, mtx_owner, loc, written>>
  /\ UNCHANGED outsideStore

C29_SetKeepsLock(w) ==
  /\ pc[w] = "set_give"
  /\ written' = written \cup {loc[w]}
  /\ pc' = [pc EXCEPT ![w] = "set_ret"]
  /\ UNCHANGED <<g_last, g_last_mtx, mtx_owner, loc, idx>>
  /\ UNCHANGED outsideStore

\* xSemaphoreGive(g_last_mtx), then return
SetGive(w) ==
  /\ pc[w] = "set_give"
  /\ mtx_owner' = NoOwner
  /\ written' = written \cup {loc[w]}
  /\ pc' = [pc EXCEPT ![w] = "set_ret"]
  /\ UNCHANGED <<g_last, g_last_mtx, loc, idx>>
  /\ UNCHANGED outsideStore

\* a task calls get_metrics(): Metrics m;
GetCall(w) ==
  /\ pc[w] = "idle"
  /\ pc' = [pc EXCEPT ![w] = "get_test"]
  /\ idx' = [idx EXCEPT ![w] = 0]
  /\ UNCHANGED <<g_last, g_last_mtx, mtx_owner, loc, written>>
  /\ UNCHANGED outsideStore

\* if (g_last_mtx && xSemaphoreTake(...) == pdTRUE)
GetTake(w) ==
  /\ pc[w] = "get_test"
  /\ g_last_mtx
  /\ MutexFree
  /\ mtx_owner' = w
  /\ pc' = [pc EXCEPT ![w] = "get_copy"]
  /\ UNCHANGED <<g_last, g_last_mtx, loc, idx, written>>
  /\ UNCHANGED outsideStore

\* else { m = g_last; }: entered with a null handle
GetNoMutex(w) ==
  /\ pc[w] = "get_test"
  /\ ~g_last_mtx
  /\ pc' = [pc EXCEPT ![w] = "get_copy"]
  /\ UNCHANGED <<g_last, g_last_mtx, mtx_owner, loc, idx, written>>
  /\ UNCHANGED outsideStore

\* m = g_last, one member at a time (in either branch)
GetCopy(w) ==
  /\ pc[w] = "get_copy"
  /\ loc' = [loc EXCEPT ![w] = CopyField(loc[w], g_last, idx[w] + 1)]
  /\ idx' = [idx EXCEPT ![w] = idx[w] + 1]
  /\ pc' = [pc EXCEPT ![w] =
              IF idx[w] + 1 < Len(Fields) THEN "get_copy"
              ELSE IF mtx_owner = w THEN "get_give" ELSE "get_ret"]
  /\ UNCHANGED <<g_last, g_last_mtx, mtx_owner, written>>
  /\ UNCHANGED outsideStore

\* xSemaphoreGive(g_last_mtx); return m;
GetGive(w) ==
  /\ pc[w] = "get_give"
  /\ mtx_owner' = NoOwner
  /\ pc' = [pc EXCEPT ![w] = "get_ret"]
  /\ UNCHANGED <<g_last, g_last_mtx, loc, idx, written>>
  /\ UNCHANGED outsideStore

\* the caller has used the result of its call and goes on
Return(w) ==
  /\ pc[w] \in {"set_ret", "get_ret"}
  /\ pc' = [pc EXCEPT ![w] = "idle"]
  /\ UNCHANGED <<g_last, g_last_mtx, mtx_owner, loc, idx, written>>
  /\ UNCHANGED outsideStore

----------------------------------------------------------------------------
(* Command worker: taskSerial / handleSerialInput / parseCommandByte *)

CR      == 13     \* '\r'
LF      == 10     \* '\n'
NUL     == 0      \* '\0'
BufSize == 32     \* sizeof(buf)

\* "RELAY:ON" and "RELAY:OFF" as bytes
RELAY_ON_STR  == <<82, 69, 76, 65, 89, 58, 79, 78>>
RELAY_OFF_STR == <<82, 69, 76, 65, 89, 58, 79, 70, 70>>

Min(S) == CHOOSE x \in S : \A y \in S : x <= y

\* the C string stored in a char array whose bytes up to the terminator are b:
\* it ends before the first NUL byte
CStr(b) ==
  LET z == {i \in 1..Len(b) : b[i] = NUL}
  IN  IF z = {} THEN b ELSE SubSeq(b, 1, Min(z) - 1)

\* strcmp(buf, lit) == 0, after buf[len] = '\0'
StrEq(b, lit) == CStr(b) = lit

\* calls recorded in the logs
RelayWriteCall(on) == <<"relayWrite", IF on THEN "true" ELSE "false">>
PrintlnCall(s)     == <<"println", s>>

C3_ReplyBeforeWrite == <<PrintlnCall("OK:RELAY:ON"), RelayWriteCall(TRUE)>>

\* { relayWrite(true);  Serial.println("OK:RELAY:ON"); }
CmdRelayOn == <<RelayWriteCall(TRUE), PrintlnCall("OK:RELAY:ON")>>

\* { relayWrite(false); Serial.println("OK:RELAY:OFF"); }
CmdRelayOff == <<RelayWriteCall(FALSE), PrintlnCall("OK:RELAY:OFF")>>

\* the if / else if chain run on the terminated buffer: the calls it makes
LineDecision(b) ==
  IF StrEq(b, RELAY_ON_STR) THEN CmdRelayOn
  ELSE IF StrEq(b, RELAY_OFF_STR) THEN CmdRelayOff
  ELSE IF Len(b) # 0 THEN <<PrintlnCall("ERR:UNKNOWN_CMD")>>
  ELSE <<>>

C7_IgnoreNothing(c) == FALSE

\* if (c == '\r') return;
IsIgnored(c) == c = CR

C6_BufHasRoomOffByOne(b) == Len(b) < BufSize

\* if (len < sizeof(buf)-1)
BufHasRoom(b) == Len(b) < BufSize - 1

C5_NoReset(b) == b

\* len = 0;
ResetLen(b) == <<>>

\* relayWrite(on): digitalWrite(RELAY_PIN, RELAY_ACTIVE_LOW ? !on : on), read back
\* by relayIsOn(); the level after the calls cs, starting from level r
RECURSIVE RelayAfter(_, _)
RelayAfter(r, cs) ==
  IF cs = <<>> THEN r
  ELSE RelayAfter(IF Head(cs)[1] = "relayWrite" THEN Head(cs)[2] = "true" ELSE r, Tail(cs))

\* the calls cs, each marked with the number of the input line being read
Tagged(cs, line) == [i \in 1..Len(cs) |-> <<cs[i][1], cs[i][2], line>>]

\* parseCommandByte(c) on st = [buf, relay, log, line]; line numbers the input
\* line the byte belongs to (history)
ParseCommandByte(st, c) ==
  IF IsIgnored(c) THEN st
  ELSE IF c # LF THEN
    IF BufHasRoom(st.buf) THEN [st EXCEPT !.buf = Append(@, c)] ELSE st
  ELSE
    LET cs == LineDecision(st.buf)
    IN  [buf   |-> ResetLen(st.buf),
         relay |-> RelayAfter(st.relay, cs),
         log   |-> st.log \o Tagged(cs, st.line),
         line  |-> st.line + 1]

\* handleSerialInput(): while (Serial.available()) parseCommandByte(Serial.read())
RECURSIVE HandleSerialInput(_, _)
HandleSerialInput(st, bytes) ==
  IF bytes = <<>> THEN st
  ELSE HandleSerialInput(ParseCommandByte(st, Head(bytes)), Tail(bytes))

\* number of occurrences of byte c in s
RECURSIVE Count(_, _)
Count(s, c) ==
  IF s = <<>> THEN 0 ELSE (IF Head(s) = c THEN 1 ELSE 0) + Count(Tail(s), c)

\* one iteration of taskSerial that finds input available (with none available
\* the iteration changes nothing)
PollOn(bytes) ==
  /\ LET st0 == [buf |-> buf, relay |-> relay, log |-> <<>>,
                 line |-> Count(consumed, LF) + 1]
         st1 == HandleSerialInput(st0, bytes)
     IN  /\ buf' = st1.buf
         /\ relay' = st1.relay
         /\ poll_log' = st1.log
         /\ poll_lock' = mtx_owner
         /\ cmd_log' = cmd_log \o st1.log
  /\ consumed' = consumed \o bytes
  /\ rx' = <<>>

C21_PollNeedsLock == rx # <<>> /\ MutexFree

\* what an iteration of taskSerial needs to handle input: Serial.available();
\* handleSerialInput calls neither set_metrics nor get_metrics
PollReady == rx # <<>>

\* taskSerial runs at the highest priority and never blocks inside an
\* iteration: the iteration is one step, whatever the other tasks are doing
Poll ==
  /\ PollReady
  /\ PollOn(rx)
  /\ UNCHANGED <<host_lines, host_crs, host_cur>>
  /\ UNCHANGED outsideCmd

(* The host in SpecCmd: it sends lines of LinePool byte by byte and may insert
   carriage returns anywhere *)

Rep(c, k) == [i \in 1..k |-> c]

LinePool ==
  { RELAY_ON_STR,
    RELAY_OFF_STR,
    <<>>,
    <<88>>,
    <<NUL>>,
    <<255>>,
    SubSeq(RELAY_ON_STR, 1, 7),
    RELAY_ON_STR \o <<78>>,
    RELAY_ON_STR \o <<NUL, 88>>,
    Rep(88, BufSize - 1),
    Rep(88, BufSize - 1 + OverLen) }

HostStartLine(l) ==
  /\ host_cur = <<>>
  /\ host_lines < MaxLines
  /\ host_cur' = l \o <<LF>>
  /\ host_lines' = host_lines + 1
  /\ UNCHANGED <<relay, buf, rx, consumed, cmd_log, poll_log, poll_lock, host_crs>>
  /\ UNCHANGED outsideCmd

\* the host in SpecSched: sendCommand writes a whole line, command + "\n"
HostSendLine(l) ==
  /\ host_lines < SchedLines
  /\ rx' = rx \o l \o <<LF>>
  /\ host_lines' = host_lines + 1
  /\ UNCHANGED <<relay, buf, consumed, cmd_log, poll_log, poll_lock, host_crs, host_cur>>
  /\ UNCHANGED outsideCmd

HostSendByte ==
  /\ host_cur # <<>>
  /\ Len(rx) < MaxRx
  /\ rx' = Append(rx, Head(host_cur))
  /\ host_cur' = Tail(host_cur)
  /\ UNCHANGED <<relay, buf, consumed, cmd_log, poll_log, poll_lock, host_lines, host_crs>>
  /\ UNCHANGED outsideCmd

HostSendCR ==
  /\ host_cur # <<>>
  /\ host_crs < MaxCR
  /\ Len(rx) < MaxRx
  /\ rx' = Append(rx, CR)
  /\ host_crs' = host_crs + 1
  /\ UNCHANGED <<relay, buf, consumed, cmd_log, poll_log, poll_lock, host_lines, host_cur>>
  /\ UNCHANGED outsideCmd

----------------------------------------------------------------------------
(* Sampling and decision worker: taskML *)

EWMA_ALPHA      == Frac(1, 2)     \* 0.5f
C11_ThresholdHigh == Frac(7, 10)

THEFT_THRESHOLD == Frac(3, 5)     \* 0.6f
VOTE_N          == 3
Half            == Frac(1, 2)     \* 0.5f in (theft_prob >= 0.5f)

\* label texts as bytes
L_theft  == <<116, 104, 101, 102, 116>>
L_tamper == <<116, 97, 109, 112, 101, 114>>
L_normal == <<110, 111, 114, 109, 97, 108>>
L_on     == <<111, 110>>
L_off    == <<111, 102, 102>>
L_idle   == <<105, 100, 108, 101>>
L_load   == <<108, 111, 97, 100>>
L_theft_tamper == L_theft \o <<95>> \o L_tamper

\* label sets of the models the firmware may be built with (ei_classifier_inferencing_categories)
Vocabularies ==
  { <<L_normal>>,
    <<L_normal, L_theft>>,
    <<L_off, L_on>>,
    <<L_idle, L_load>>,
    <<L_normal, L_theft_tamper>>,
    <<L_normal, L_off, L_on>> }

\* the classification arrays a successful run_classifier may return for the labels
\* ls: every value a multiple of 1/PScale in [0,1], the values summing to at most 1
RECURSIVE SumSeq(_)
SumSeq(q) == IF q = <<>> THEN 0 ELSE Head(q) + SumSeq(Tail(q))

Results(ls) ==
  { [i \in 1..Len(ls) |-> [label |-> ls[i], value |-> Frac(v[i], PScale)]] :
      v \in {u \in [1..Len(ls) -> 0..PScale] : SumSeq(u) <= PScale} }

\* Results, tabulated once for every label set
ResultsOf == [ls \in Vocabularies |-> Results(ls)]

\* EI_IMPULSE_ERROR values other than EI_IMPULSE_OK
ErrCodes == {-5}

\* strstr(L, s) != nullptr
label_has(L, s) ==
  \E i \in 1..(Len(L) - Len(s) + 1) : SubSeq(L, i, i + Len(s) - 1) = s

\* the accumulation loop of theft_metric_from_labels for one keyword
RECURSIVE LabelSum(_, _)
LabelSum(res, s) ==
  IF res = <<>> THEN Zero
  ELSE RAdd(IF label_has(Head(res).label, s) THEN Head(res).value ELSE Zero,
            LabelSum(Tail(res), s))

C16_RuleBNoComplement(p_theft, p_tamper, p_normal, p_on, p_off, relay_on) ==
  IF RGt(RAdd(p_theft, p_tamper), Zero) THEN RAdd(p_theft, p_tamper)
  ELSE IF RGt(p_normal, Zero) THEN p_normal
  ELSE IF RGt(p_on, Zero) \/ RGt(p_off, Zero) THEN (IF relay_on THEN p_on ELSE p_off)
  ELSE RSub(One, p_normal)

\* the return statements of theft_metric_from_labels, on the five sums
FirstRule(p_theft, p_tamper, p_normal, p_on, p_off, relay_on) ==
  IF RGt(RAdd(p_theft, p_tamper), Zero) THEN RAdd(p_theft, p_tamper)
  ELSE IF RGt(p_normal, Zero) THEN RSub(One, p_normal)
  ELSE IF RGt(p_on, Zero) \/ RGt(p_off, Zero) THEN (IF relay_on THEN p_on ELSE p_off)
  ELSE RSub(One, p_normal)

theft_metric_from_labels(res, relay_on) ==
  FirstRule(LabelSum(res, L_theft), LabelSum(res, L_tamper), LabelSum(res, L_normal),
            LabelSum(res, L_on), LabelSum(res, L_off), relay_on)

\* set_metrics / get_metrics as one step each (SpecStore looks inside them)
SetMetrics(m) == IF g_last_mtx THEN m ELSE g_last
GetMetrics    == g_last

\* the readings ina.getBusVoltage_V() and ina.getCurrent_mA() may return
Readings == { [V |-> 230, mA |-> 500], [V |-> 231, mA |-> 0] }

C27_PackNoZeroFill(f, base, V, I, P, R) ==
  [i \in DOMAIN f |->
     IF i = base     /\ kModelAxes >= 1 THEN V
     ELSE IF i = base + 1 /\ kModelAxes >= 2 THEN I
     ELSE IF i = base + 2 /\ kModelAxes >= 3 THEN P
     ELSE IF i = base + 3 /\ kModelAxes >= 4 THEN R
     ELSE f[i]]

\* the writes to features[base ..] for one sample
Pack(f, base, V, I, P, R) ==
  [i \in DOMAIN f |->
     IF i = base     /\ kModelAxes >= 1 THEN V
     ELSE IF i = base + 1 /\ kModelAxes >= 2 THEN I
     ELSE IF i = base + 2 /\ kModelAxes >= 3 THEN P
     ELSE IF i = base + 3 /\ kModelAxes >= 4 THEN R
     ELSE IF i >= base + 4 /\ i < base + kModelAxes THEN Zero
     ELSE f[i]]

C30_WakeFromNow(t) == (now + period) % TickWrap

\* vTaskDelayUntil(&tick, period): xTimeToWake = *pxPreviousWakeTime + xTimeIncrement,
\* which is stored into *pxPreviousWakeTime
WakeTime(t) == (t + period) % TickWrap

\* vTaskDelayUntil: the call blocks iff the wake time lies ahead of the tick
\* count c (the comparisons allow for a wrapped tick count)
ShouldDelay(c, t) ==
  IF c < t THEN WakeTime(t) < t /\ WakeTime(t) > c
  ELSE WakeTime(t) < t \/ WakeTime(t) > c

\* the tick count when vTaskDelayUntil(&tick, period) returns
TickAfterDelay(c, t) == IF ShouldDelay(c, t) THEN WakeTime(t) ELSE c

\* a value no sample has, to find the slots a call of Pack writes
Unwritten == Frac(-1, 1)

\* the slots of features the packing of one sample at base writes
PackedSlots(base, V, I, P, R) ==
  {i \in DOMAIN features :
     Pack([j \in DOMAIN features |-> Unwritten], base, V, I, P, R)[i] # Unwritten}

C34_LoadingLiveRelay(m, k) ==
  [m EXCEPT !.phase = "UI_LOADING", !.progress = Frac(k, kRawCount), !.relay = relay]

\* mm.phase = UI_LOADING; mm.progress = float(n + 1) / float(kRawCount)
LoadingOf(m, k) == [m EXCEPT !.phase = "UI_LOADING", !.progress = Frac(k, kRawCount)]

\* one iteration of the inner loop of taskML: a sample
MLSample(rd) ==
  /\ windows < MaxWindows
  /\ n < kRawCount
  /\ tick' = WakeTime(tick)
  /\ now' = TickAfterDelay(now, tick)
  /\ LET V == Frac(rd.V, 1)
         I == RMul(Frac(rd.mA, 1), Frac(1, 1000))
         P == RMul(V, I)
         R == IF relay THEN One ELSE Zero
         fits == ix + kModelAxes <= kTotalLen
         mm == LoadingOf(GetMetrics, n + 1)
     IN  /\ features' = IF fits THEN Pack(features, ix, V, I, P, R) ELSE features
         /\ ix' = IF fits THEN ix + kModelAxes ELSE ix
         /\ packed' = IF fits THEN packed \cup PackedSlots(ix, V, I, P, R) ELSE packed
         /\ samples' = Append(samples, <<V, I, P, R>>)
         /\ sums' = [V |-> RAdd(sums.V, V), I |-> RAdd(sums.I, I), P |-> RAdd(sums.P, P)]
         /\ g_last' = IF first_window THEN SetMetrics(mm) ELSE g_last
         /\ ml_log' = IF first_window THEN <<<<"get_metrics", g_last>>, <<"set_metrics", mm>>>>
                      ELSE <<>>
  /\ n' = n + 1
  /\ result' = <<>>
  /\ UNCHANGED <<theft_prob_ewma, vote_hist, vote_hist_idx, first_window, led,
                 windows, probs, ei_labels, raw_count, frame_size>>
  /\ UNCHANGED outsideML

C12_FailResetsEwma(err) ==
  /\ n = kRawCount
  /\ ml_log' = <<<<"printf", <<"ERR:Classifier", err>>>>>>
  /\ windows' = windows + 1
  /\ n' = 0
  /\ ix' = 0
  /\ sums' = [V |-> Zero, I |-> Zero, P |-> Zero]
  /\ result' = <<>>
  /\ samples' = <<>>
  /\ packed' = {}
  /\ theft_prob_ewma' = Zero
  /\ UNCHANGED <<g_last, vote_hist, vote_hist_idx, first_window,
                 features, led, probs, ei_labels, raw_count, frame_size, tick, now>>
  /\ UNCHANGED outsideML

\* run_classifier returns an error: the ERR line, then continue (next window)
MLClassifyFail(err) ==
  /\ n = kRawCount
  /\ ml_log' = <<<<"printf", <<"ERR:Classifier", err>>>>>>
  /\ windows' = windows + 1
  /\ n' = 0
  /\ ix' = 0
  /\ sums' = [V |-> Zero, I |-> Zero, P |-> Zero]
  /\ result' = <<>>
  /\ samples' = <<>>
  /\ packed' = {}
  /\ UNCHANGED <<g_last, theft_prob_ewma, vote_hist, vote_hist_idx, first_window,
                 features, led, probs, ei_labels, raw_count, frame_size, tick, now>>
  /\ UNCHANGED outsideML

C8_EwmaNoSmoothing(ewma, theft_prob) == theft_prob

C17_EwmaOvershoot(ewma, theft_prob) ==
  RAdd(RMul(Frac(3, 2), theft_prob), RMul(RSub(One, Frac(3, 2)), ewma))

\* theft_prob_ewma = EWMA_ALPHA * theft_prob + (1.0f - EWMA_ALPHA) * theft_prob_ewma
EwmaUpdate(ewma, theft_prob) ==
  RAdd(RMul(EWMA_ALPHA, theft_prob), RMul(RSub(One, EWMA_ALPHA), ewma))

C33_BinarizeHigh(theft_prob) == IF RGe(theft_prob, Frac(3, 4)) THEN 1 ELSE 0

\* (theft_prob >= 0.5f) ? 1 : 0
Binarize(theft_prob) == IF RGe(theft_prob, Half) THEN 1 ELSE 0

C9_VotePushFirstSlot(hist, i, theft_prob) == [hist EXCEPT ![1] = Binarize(theft_prob)]

\* vote_hist[vote_hist_idx] = ...   (vote_hist is indexed from 1 here)
VotePush(hist, i, theft_prob) == [hist EXCEPT ![i + 1] = Binarize(theft_prob)]

\* vote_sum >= ((VOTE_N + 1) / 2)
VoteTheft(hist) == SumSeq(hist) >= ((VOTE_N + 1) \div 2)

C10_AlertVoteOnly(ewma, hist) == VoteTheft(hist)

\* bool alert = (theft_prob_ewma >= THEFT_THRESHOLD) || vote_theft
Alert(ewma, hist) == RGe(ewma, THEFT_THRESHOLD) \/ VoteTheft(hist)

\* the level digitalWrite(STATUS_LED, alert ? HIGH : LOW) sets
LedLevel(alert) == alert

C13_MeanIsSum(sum) == sum

\* sumX / kRawCount
Mean(sum) == RMul(sum, Frac(1, kRawCount))

Pow10(d) == IF d = 0 THEN 1 ELSE IF d = 1 THEN 10 ELSE IF d = 2 THEN 100 ELSE 1000

\* printf("%.<d>f", x) for x >= 0: the digits printed, as the integer round(x * 10^d),
\* rounding to nearest and a tie to even
Fmt(x, d) ==
  LET num == x[1] * Pow10(d)
      q   == num \div x[2]
      r   == num % x[2]
  IN  IF 2 * r > x[2] THEN q + 1
      ELSE IF 2 * r = x[2] THEN q + (q % 2)
      ELSE q

C14_DataLineSwapped(V_mean, I_mean, P_mean, ewma, alert) ==
  <<"DATA", <<"V", Fmt(V_mean, 3)>>, <<"P", Fmt(P_mean, 3)>>, <<"I", Fmt(I_mean, 3)>>,
    <<"THEFT", Fmt(ewma, 2)>>, <<"ALERT", IF alert THEN 1 ELSE 0>>>>

\* "DATA:V=%.3f,I=%.3f,P=%.3f,THEFT=%.2f,ALERT=%d\n"
DataLine(V_mean, I_mean, P_mean, ewma, alert) ==
  <<"DATA", <<"V", Fmt(V_mean, 3)>>, <<"I", Fmt(I_mean, 3)>>, <<"P", Fmt(P_mean, 3)>>,
    <<"THEFT", Fmt(ewma, 2)>>, <<"ALERT", IF alert THEN 1 ELSE 0>>>>

\* run_classifier returns EI_IMPULSE_OK with the classification res
\* (the locals are bound with \E over a singleton, so each is computed once)
MLClassifyOk(res) ==
  /\ n = kRawCount
  /\ \E relay_on \in {relay} :
     \E theft_prob \in {theft_metric_from_labels(res, relay_on)} :
     \E ewma \in {EwmaUpdate(theft_prob_ewma, theft_prob)} :
     \E hist \in {VotePush(vote_hist, vote_hist_idx, theft_prob)} :
     \E alert \in {Alert(ewma, hist)} :
     \E V_mean \in {Mean(sums.V)} :
     \E I_mean \in {Mean(sums.I)} :
     \E P_mean \in {Mean(sums.P)} :
     \E m \in {[GetMetrics EXCEPT !.V = V_mean, !.I = I_mean, !.P = P_mean,
                                  !.theft = ewma, !.alert = alert,
                                  !.relay = relay_on, !.progress = One,
                                  !.phase = IF alert THEN "UI_ALERT" ELSE "UI_RUN"]} :
       /\ theft_prob_ewma' = ewma
       /\ vote_hist' = hist
       /\ vote_hist_idx' = (vote_hist_idx + 1) % VOTE_N
       /\ led' = LedLevel(alert)
       /\ g_last' = SetMetrics(m)
       /\ ml_log' = << <<"digitalWrite", alert>>,
                       <<"printf", DataLine(V_mean, I_mean, P_mean, ewma, alert)>>,
                       <<"get_metrics", g_last>>,
                       <<"set_metrics", m>> >>
       /\ probs' = Append(probs, theft_prob)
  /\ result' = res
  /\ first_window' = FALSE
  /\ windows' = windows + 1
  /\ n' = 0
  /\ ix' = 0
  /\ sums' = [V |-> Zero, I |-> Zero, P |-> Zero]
  /\ samples' = <<>>
  /\ packed' = {}
  /\ UNCHANGED <<features, ei_labels, raw_count, frame_size, tick, now>>
  /\ UNCHANGED outsideML

\* the command worker in Spec: one iteration of taskSerial that receives a
\* whole command line
CommandLine(l) ==
  /\ Count(consumed, LF) < MaxCmds
  /\ rx = <<>>
  /\ PollOn(l \o <<LF>>)
  /\ UNCHANGED <<host_lines, host_crs, host_cur>>
  /\ UNCHANGED outsideCmd

----------------------------------------------------------------------------
(* Display worker: taskDisplay *)

SCREEN_WIDTH    == 128
C28_BudgetOneMore == 20 + 1
BootFrameBudget == 20      \* boot_frames < 20

C32_ClampAbove(x) == IF RGt(x, One) THEN One ELSE x

\* x < 0 ? 0 : (x > 1 ? 1 : x)
Clamp01(x) == IF x[1] < 0 THEN Zero ELSE IF RGt(x, One) THEN One ELSE x

\* (int)(width * x) for x >= 0
BarWidth(width, x) == (width * x[1]) \div x[2]

\* m.relay ? "ON " : "OFF"
RelayText(r) == IF r THEN "ON " ELSE "OFF"

C19_BootIgnoresBudget(phase, frames) ==
  IF phase = "UI_BOOT" THEN "BOOT"
  ELSE IF phase = "UI_LOADING" THEN "LOADING"
  ELSE IF phase = "UI_ALERT" THEN "ALERT"
  ELSE "RUN"

\* the if / else if chain of taskDisplay
ViewOf(phase, frames) ==
  IF phase = "UI_BOOT" /\ frames < BootFrameBudget THEN "BOOT"
  ELSE IF phase = "UI_LOADING" THEN "LOADING"
  ELSE IF phase = "UI_ALERT" THEN "ALERT"
  ELSE "RUN"

NoView == [kind |-> "none", frame |-> 0, relay |-> "", bar |-> 0, m |-> Startup]

\* drawBootFrame(frame) / drawLoading(m, now) / drawAlert(m, now) / drawRun(m):
\* the view drawn, the relay text and the filled width of the bar it shows
Render(m, frames) ==
  LET kind == ViewOf(m.phase, frames)
  IN  [kind  |-> kind,
       frame |-> IF kind = "BOOT" THEN frames ELSE 0,
       relay |-> IF kind \in {"LOADING", "RUN"} THEN RelayText(m.relay) ELSE "",
       bar   |-> IF kind = "LOADING" THEN BarWidth(SCREEN_WIDTH - 4, Clamp01(m.progress))
                 ELSE IF kind = "RUN" THEN BarWidth(SCREEN_WIDTH - 2, Clamp01(m.theft))
                 ELSE 0,
       m     |-> m]

C20_TickWritesPhase ==
  /\ \E m \in {GetMetrics} :
       /\ view' = Render(m, boot_frames)
       /\ boot_frames' = IF ViewOf(m.phase, boot_frames) = "BOOT"
                         THEN boot_frames + 1 ELSE boot_frames
       /\ g_last' = IF m.phase = "UI_BOOT" /\ boot_frames >= BootFrameBudget
                    THEN [g_last EXCEPT !.phase = "UI_RUN"] ELSE g_last
  /\ UNCHANGED <<relay, storeVars, cmdVars, mlVars, timeVars, hostVars>>

\* one iteration of the loop of taskDisplay
DisplayTick ==
  /\ \E m \in {GetMetrics} :
       /\ view' = Render(m, boot_frames)
       /\ boot_frames' = IF ViewOf(m.phase, boot_frames) = "BOOT"
                         THEN boot_frames + 1 ELSE boot_frames
  /\ UNCHANGED outsideDisplay

----------------------------------------------------------------------------
(* Dashboard: WebSerialManager.parseLine, the onData callback of Dashboard, *)
(* handleRelayToggle, and the effect of MapView. The port is connected.     *)

\* key.toLowerCase()
ToLowerCase(k) ==
  CASE k = "V" -> "v" [] k = "I" -> "i" [] k = "P" -> "p"
    [] k = "THEFT" -> "theft" [] k = "ALERT" -> "alert" [] OTHER -> k

\* the digits after the point in the text of a field of the DATA line
FieldDecimals(k) == IF k \in {"V", "I", "P"} THEN 3 ELSE IF k = "THEFT" THEN 2 ELSE 0

\* parseFloat(value) of the text of the field
ParseFloat(field) == Frac(field[2], Pow10(FieldDecimals(field[1])))

\* for (const pair of pairs) data[key.toLowerCase()] = parseFloat(value)
ParsedPairs(line) ==
  [k \in {ToLowerCase(line[i][1]) : i \in 2..Len(line)} |->
     ParseFloat(line[CHOOSE i \in 2..Len(line) :
                       /\ ToLowerCase(line[i][1]) = k
                       /\ \A j \in (i + 1)..Len(line) : ToLowerCase(line[j][1]) # k])]

\* parseLine(line): <<the DeviceData handed to onDataCallback>>, or <<>> when
\* the callback is not called (the timestamp is left out)
ParseLine(line) ==
  IF line[1] # "DATA" THEN <<>>
  ELSE LET d == ParsedPairs(line)
       IN  IF {"v", "i", "p"} \subseteq DOMAIN d
             THEN << [voltage |-> d["v"], current |-> d["i"], power |-> d["p"],
                      theft |-> IF "theft" \in DOMAIN d THEN d["theft"] ELSE Zero,
                      alert |-> ("alert" \in DOMAIN d) /\ d["alert"] = One,
                      relay |-> ("relay" \in DOMAIN d) /\ d["relay"] = One] >>
             ELSE <<>>

\* const newAlert: AlertLog = {...} (id, timestamp and location left out)
AlertLogOf(d) ==
  [voltage |-> d.voltage, current |-> d.current, power |-> d.power, theft |-> d.theft]

\* managerRef.current.onData((deviceData) => {...}); MapView is rendered once
\* data is set, and its effect is due whenever alerts changes
OnData(d) ==
  /\ data' = <<d>>
  /\ relayOn' = d.relay
  /\ alerts' = IF d.alert THEN Append(alerts, AlertLogOf(d)) ELSE alerts
  /\ map_stale' = (map_stale \/ d.alert \/ data = <<>>)

\* the line taskML printed in its latest step (DATA or ERR:Classifier)
DeviceLine == IF Len(ml_log) = 4 THEN ml_log[2][2] ELSE ml_log[1][2]

\* readLoop: one complete line of the device is handed to parseLine
HostReceive ==
  /\ host_seen < windows
  /\ host_seen' = windows
  /\ \E r \in {ParseLine(DeviceLine)} :
       IF r = <<>> THEN UNCHANGED <<data, relayOn, alerts, map_stale>>
       ELSE OnData(r[1])
  /\ UNCHANGED <<map_ready, markers, delivered, text_read, buffer, parse_log>>
  /\ UNCHANGED cmdVars
  /\ UNCHANGED outsideHost

\* handleRelayToggle, with the button rendered (connected && data):
\* sendCommand(relayOn ? 'RELAY:OFF' : 'RELAY:ON') writes command + "\n"
HandleRelayToggle ==
  /\ data # <<>>
  /\ host_lines < HostToggles
  /\ host_lines' = host_lines + 1
  /\ rx' = rx \o (IF relayOn THEN RELAY_OFF_STR ELSE RELAY_ON_STR) \o <<LF>>
  /\ UNCHANGED <<buf, consumed, cmd_log, poll_log, poll_lock, host_crs, host_cur>>
  /\ UNCHANGED hostVars
  /\ UNCHANGED outsideHost

\* MapView: useEffect(() => { if (... || mapInstanceRef.current) return; ...
\* alerts.forEach(... marker.addTo(map)); mapInstanceRef.current = map })
MapEffect ==
  /\ map_stale
  /\ map_stale' = FALSE
  /\ IF map_ready THEN UNCHANGED <<map_ready, markers>>
     ELSE map_ready' = TRUE /\ markers' = alerts
  /\ UNCHANGED <<data, relayOn, alerts, host_seen, delivered, text_read, buffer,
                 parse_log>>
  /\ UNCHANGED cmdVars
  /\ UNCHANGED outsideHost

\* buffer.split("\n")
RECURSIVE SplitLines(_)
SplitLines(s) ==
  IF \A i \in 1..Len(s) : s[i] # LF THEN <<s>>
  ELSE LET i == CHOOSE k \in 1..Len(s) : s[k] = LF /\ \A j \in 1..(k - 1) : s[j] # LF
       IN  <<SubSeq(s, 1, i - 1)>> \o SplitLines(SubSeq(s, i + 1, Len(s)))

\* line.trim(): white space and line terminators (those below 128) are
\* removed at both ends
Trim(s) ==
  LET keep == {i \in 1..Len(s) : s[i] \notin {9, 10, 11, 12, 13, 32}}
  IN  IF keep = {} THEN <<>>
      ELSE SubSeq(s, CHOOSE i \in keep : \A j \in keep : i <= j,
                     CHOOSE i \in keep : \A j \in keep : i >= j)

C36_PopNothing(lines) == <<>>

\* lines.pop() || ""
PopLast(lines) == lines[Len(lines)]

\* the body of the while loop of readLoop for one chunk value, from the buffer b:
\* the new buffer and the arguments of the calls of parseLine, in order
ReadStep(b, value) ==
  LET lines == SplitLines(b \o value)
  IN  [buffer |-> PopLast(lines),
       calls  |-> [i \in 1..(Len(lines) - 1) |-> Trim(lines[i])]]

\* one iteration of readLoop: reader.read() returns the chunk value
\* (parseLine returns at once for a line that does not start with "DATA:")
ReadChunk(value) ==
  /\ \E r \in {ReadStep(buffer, value)} :
       /\ buffer' = r.buffer
       /\ parse_log' = parse_log \o r.calls
  /\ delivered' = Append(delivered, value)
  /\ text_read' = text_read \o value
  /\ UNCHANGED <<data, relayOn, alerts, map_ready, markers, map_stale, host_seen>>
  /\ UNCHANGED cmdVars
  /\ UNCHANGED outsideHost

----------------------------------------------------------------------------
(* State after setup() *)

InitDisplay ==
  /\ boot_frames = 0
  /\ view = NoView

\* taskML: tick = xTaskGetTickCount(), period = pdMS_TO_TICKS(EI_CLASSIFIER_INTERVAL_MS)
InitTimeOf(p, t) ==
  /\ period = p
  /\ tick_start = t
  /\ tick = t
  /\ now = t

InitTime == InitTimeOf(BuildPeriod, 0)

\* Dashboard and MapView as mounted, with no alerts saved in localStorage
InitHost ==
  /\ data = <<>>
  /\ relayOn = FALSE
  /\ alerts = <<>>
  /\ map_ready = FALSE
  /\ markers = <<>>
  /\ map_stale = FALSE
  /\ host_seen = 0
  /\ delivered = <<>>
  /\ text_read = <<>>
  /\ buffer = <<>>
  /\ parse_log = <<>>

InitStore ==
  /\ g_last_mtx \in BOOLEAN        \* xSemaphoreCreateMutex() may return NULL
  /\ mtx_owner = NoOwner
  /\ pc = [w \in Tasks |-> "idle"]
  /\ loc = [w \in Tasks |-> Startup]
  /\ idx = [w \in Tasks |-> 0]
  /\ written = {}

InitCmd ==
  /\ buf = <<>>
  /\ rx = <<>>
  /\ consumed = <<>>
  /\ cmd_log = <<>>
  /\ poll_log = <<>>
  /\ poll_lock = NoOwner
  /\ host_lines = 0
  /\ host_crs = 0
  /\ host_cur = <<>>

InitMLOf(N, L) ==
  /\ raw_count = N
  /\ frame_size = L
  /\ samples = <<>>
  /\ packed = {}
  /\ theft_prob_ewma = Zero
  /\ vote_hist = <<0, 0, 0>>
  /\ vote_hist_idx = 0
  /\ first_window = TRUE
  /\ n = 0
  /\ ix = 0
  /\ sums = [V |-> Zero, I |-> Zero, P |-> Zero]
  /\ features = [i \in 0..(kTotalLen - 1) |-> Zero]
  /\ led = FALSE
  /\ ml_log = <<>>
  /\ windows = 0
  /\ probs = <<>>
  /\ result = <<>>
  /\ ei_labels \in Vocabularies

InitML == InitMLOf(BuildRawCount, BuildFrameSize)

\* setup(): relayWrite(false), STATUS_LED low, mutex creation, set_metrics({.. UI_BOOT ..})
Init ==
  /\ g_last = Startup
  /\ relay = FALSE
  /\ InitStore
  /\ InitCmd
  /\ InitML
  /\ InitDisplay
  /\ InitTime
  /\ InitHost

\* setup() of a firmware built with the model whose labels are normal / theft
InitOneModel == Init /\ ei_labels = <<L_normal, L_theft>>

----------------------------------------------------------------------------
(* Spec: taskML, with the command worker switching the relay *)

Next ==
  \/ \E rd \in Readings : MLSample(rd)
  \/ \E err \in ErrCodes : MLClassifyFail(err)
  \/ \E res \in ResultsOf[ei_labels] : MLClassifyOk(res)
  \/ \E l \in {RELAY_ON_STR, RELAY_OFF_STR} : CommandLine(l)

Spec == Init /\ [][Next]_vars

\* C8: a step that classifies a window successfully, with per-window probability
\* p, sets ewma to p/2 + (previous ewma)/2, writes the binarized decision
\* (p >= 0.5) into the history slot vote_hist_idx, and drives STATUS_LED to
\* (new ewma >= 0.6) or (sum of the three slots >= 2).
C8_Step ==
  Len(probs') = Len(probs) + 1 =>
    LET p     == probs'[Len(probs')]
        e0    == theft_prob_ewma
        e1    == theft_prob_ewma'
        bin   == IF 2 * p[1] >= p[2] THEN 1 ELSE 0
        sum   == vote_hist'[1] + vote_hist'[2] + vote_hist'[3]
        alert == (5 * e1[1] >= 3 * e1[2]) \/ (sum >= 2)
    IN  /\ 2 * e1[1] * p[2] * e0[2] = (p[1] * e0[2] + e0[1] * p[2]) * e1[2]
        /\ vote_hist' = [vote_hist EXCEPT ![vote_hist_idx + 1] = bin]
        /\ led' = alert
        /\ ml_log'[1] = <<"digitalWrite", alert>>

C8_DecisionUpdate == [][C8_Step]_vars

\* after two or more windows the indicator is on by the vote while ewma is below 0.6
C8_Witness ==
  /\ Len(probs) >= 2
  /\ led = TRUE
  /\ 5 * theft_prob_ewma[1] < 3 * theft_prob_ewma[2]
  /\ ml_log # <<>> /\ ml_log[1] = <<"digitalWrite", TRUE>>

\* the decision slot j must hold: that of the one window among the three most
\* recent successfully classified ones that falls on slot j, or 0
C9_SlotOf(j) ==
  LET ks == {k \in 1..Len(probs) : k > Len(probs) - 3 /\ (k - 1) % 3 = j - 1}
  IN  IF ks = {} THEN 0
      ELSE LET k == CHOOSE x \in ks : TRUE
           IN  IF 2 * probs[k][1] >= probs[k][2] THEN 1 ELSE 0

\* C9: the three slots hold the binarized decisions of the three most recent
\* successfully classified windows (0 where there is none yet), the next slot
\* written is the oldest one, nothing else changes the history; the vote raises
\* the alert iff at least two slots are 1, in any order ([1,0,1] yes, [1,0,0] no).
C9_VoteHistory ==
  /\ \A j \in 1..3 : vote_hist[j] = C9_SlotOf(j)
  /\ vote_hist_idx = Len(probs) % 3
  /\ (Len(probs) > 0 /\ 5 * theft_prob_ewma[1] < 3 * theft_prob_ewma[2]) =>
       (led <=> Cardinality({j \in 1..3 : vote_hist[j] = 1}) >= 2)
  /\ VoteTheft(<<1, 0, 1>>)
  /\ ~VoteTheft(<<1, 0, 0>>)

\* the fourth window has overwritten the slot of the first: history [1,0,1],
\* alert raised by the vote alone
C9_Witness ==
  /\ Len(probs) = 4
  /\ 2 * probs[1][1] < probs[1][2]
  /\ vote_hist = <<1, 0, 1>>
  /\ 5 * theft_prob_ewma[1] < 3 * theft_prob_ewma[2]
  /\ led = TRUE

\* C10: once a window has been classified, ewma >= 0.6 implies that the alert
\* is on: the indicator is high, the snapshot handed to set_metrics for the
\* window has alert = true and phase ALERT, and so has the stored snapshot
\* whenever the store takes writes.
C10_EwmaForcesAlert ==
  (Len(probs) > 0 /\ 5 * theft_prob_ewma[1] >= 3 * theft_prob_ewma[2]) =>
    /\ led = TRUE
    /\ Len(ml_log) = 4 =>
         /\ ml_log[4][1] = "set_metrics"
         /\ ml_log[4][2].alert = TRUE
         /\ ml_log[4][2].phase = "UI_ALERT"
    /\ g_last_mtx => (g_last.alert = TRUE /\ g_last.phase = "UI_ALERT")

\* ewma is at least 0.6 with fewer than two votes: the alert is on by ewma alone
C10_Witness ==
  /\ Len(probs) > 0
  /\ 5 * theft_prob_ewma[1] >= 3 * theft_prob_ewma[2]
  /\ vote_hist[1] + vote_hist[2] + vote_hist[3] < 2
  /\ led = TRUE
  /\ g_last.phase = "UI_ALERT"

\* a step in which run_classifier returned an error / returned EI_IMPULSE_OK
FailedWindowStep == windows' = windows + 1 /\ Len(probs') = Len(probs)
ClassifiedWindowStep == windows' = windows + 1 /\ Len(probs') = Len(probs) + 1

IsDataCall(c) == c[1] = "printf" /\ c[2][1] = "DATA"
IsErrCall(c)  == c[1] = "printf" /\ c[2][1] = "ERR:Classifier"

C12_Step ==
  FailedWindowStep =>
    /\ Len(ml_log') = 1
    /\ IsErrCall(ml_log'[1])
    /\ ml_log'[1][2][2] \in ErrCodes
    /\ UNCHANGED <<theft_prob_ewma, vote_hist, vote_hist_idx, led, g_last>>
    /\ n' = 0 /\ ix' = 0
    /\ sums' = [V |-> Zero, I |-> Zero, P |-> Zero]

C13_Step ==
  ClassifiedWindowStep =>
    LET m   == ml_log'[Len(ml_log')][2]
        e1  == theft_prob_ewma'
        sum == vote_hist'[1] + vote_hist'[2] + vote_hist'[3]
    IN  /\ ml_log'[Len(ml_log')][1] = "set_metrics"
        /\ RMul(m.V, Frac(kRawCount, 1)) = sums.V
        /\ RMul(m.I, Frac(kRawCount, 1)) = sums.I
        /\ RMul(m.P, Frac(kRawCount, 1)) = sums.P
        /\ m.theft = e1
        /\ m.alert = ((5 * e1[1] >= 3 * e1[2]) \/ sum >= 2)
        /\ m.relay = relay
        /\ m.progress = One
        /\ m.phase = (IF m.alert THEN "UI_ALERT" ELSE "UI_RUN")
        /\ g_last_mtx => g_last' = m

\* C13: the snapshot a successfully classified window hands to set_metrics has
\* V, I, P equal to the window's sums divided by N, theft equal to the updated
\* ewma, alert equal to (ewma >= 0.6 or vote sum >= 2), relay equal to the relay
\* readback of the decision, progress 1 and phase ALERT if alert else RUN; with
\* the mutex created it is the stored snapshot after the step.
C13_SnapshotWritten == [][C13_Step]_vars

\* a stored ALERT snapshot with the relay on and means of two different readings
C13_Witness ==
  /\ Len(ml_log) = 4
  /\ g_last = ml_log[4][2]
  /\ g_last.phase = "UI_ALERT"
  /\ g_last.relay = TRUE
  /\ g_last.V = Frac(461, 2)
  /\ g_last.I = Frac(1, 4)
  /\ g_last.progress = One

\* the calls of a step that ends a window: the decision update (ending with the
\* STATUS_LED write), then one DATA line with the fields V, I, P, THEFT, ALERT
\* carrying the window means, the updated ewma and the alert, then the
\* snapshot read and write
C14_EmitsData ==
  LET e1    == theft_prob_ewma'
      sum   == vote_hist'[1] + vote_hist'[2] + vote_hist'[3]
      alert == (5 * e1[1] >= 3 * e1[2]) \/ sum >= 2
  IN  /\ Len(ml_log') = 4
      /\ ml_log'[1][1] = "digitalWrite"
      /\ ml_log'[2] =
           <<"printf",
             <<"DATA", <<"V", Fmt(RMul(sums.V, Frac(1, kRawCount)), 3)>>,
                       <<"I", Fmt(RMul(sums.I, Frac(1, kRawCount)), 3)>>,
                       <<"P", Fmt(RMul(sums.P, Frac(1, kRawCount)), 3)>>,
                       <<"THEFT", Fmt(e1, 2)>>,
                       <<"ALERT", IF alert THEN 1 ELSE 0>> >> >>
      /\ ml_log'[3][1] = "get_metrics"
      /\ ml_log'[4][1] = "set_metrics"

\* C14 as stated: every window of N samples, whatever the classifier returned,
\* produces exactly one DATA line, with those fields, after the decision update
\* and before the snapshot write
C14_EveryWindowOneData ==
  [][windows' = windows + 1 => C14_EmitsData]_vars

C14_Step ==
  /\ ClassifiedWindowStep => C14_EmitsData
  /\ ~ClassifiedWindowStep =>
       (ml_log' # ml_log => \A i \in 1..Len(ml_log') : ~IsDataCall(ml_log'[i]))

\* the line of the example: V=230.150, I=0.452, P=104.170, ewma=0.15, no alert
C14_Example ==
  DataLine(Frac(230150, 1000), Frac(452, 1000), Frac(104170, 1000), Frac(15, 100), FALSE)
    = <<"DATA", <<"V", 230150>>, <<"I", 452>>, <<"P", 104170>>, <<"THEFT", 15>>,
        <<"ALERT", 0>>>>

\* C14 (amended): every successfully classified window produces exactly one DATA
\* line, with the fields V, I, P, THEFT, ALERT in that order carrying the window
\* means to three decimals, the updated ewma to two decimals and the alert as
\* 0/1; it is emitted after the decision update (the STATUS_LED write) and
\* before that window's get_metrics / set_metrics; no other step (a sample, a
\* window whose classification failed) emits a DATA line.
C14_DataLinePerClassifiedWindow == [](C14_Example) /\ [][C14_Step]_vars

\* a DATA line with distinct V, I, P, a non-zero THEFT and ALERT=1
C14_Witness ==
  /\ Len(ml_log) = 4
  /\ ml_log[2] = <<"printf", <<"DATA", <<"V", 230500>>, <<"I", 250>>, <<"P", 57500>>,
                                <<"THEFT", 75>>, <<"ALERT", 1>>>>>>

\* the sum of the values of the entries of res whose label contains one of the
\* keywords ks (each entry once)
RECURSIVE C15_SumAny(_, _)
C15_SumAny(res, ks) ==
  IF res = <<>> THEN Zero
  ELSE RAdd(IF \E k \in ks : label_has(Head(res).label, k) THEN Head(res).value ELSE Zero,
            C15_SumAny(Tail(res), ks))

C15_Present(res, ks) ==
  \E i \in 1..Len(res) : \E k \in ks : label_has(res[i].label, k)

\* the reference of the claim: rules (a) to (d), the first that matches
C15_Reference(res, relay_on) ==
  IF RGt(C15_SumAny(res, {L_theft, L_tamper}), Zero)
    THEN C15_SumAny(res, {L_theft, L_tamper})
  ELSE IF C15_Present(res, {L_normal})
    THEN RSub(One, C15_SumAny(res, {L_normal}))
  ELSE IF C15_Present(res, {L_on, L_off})
    THEN (IF relay_on THEN C15_SumAny(res, {L_on}) ELSE C15_SumAny(res, {L_off}))
  ELSE RSub(One, C15_SumAny(res, {L_normal}))

\* C15: the probability taskML computes for a classified window equals the
\* reference applied to the classifier's result and the relay readback of the
\* decision, for every label set and relay state (stated here for the results
\* whose values sum to 1, as the outputs of a softmax layer do).
C15_EqualsReference ==
  (result # <<>> /\ Len(ml_log) = 4 /\ C15_SumAny(result, {<<>>}) = One) =>
    probs[Len(probs)] = C15_Reference(result, ml_log[4][2].relay)

\* C16: when the first window, from ewma = 0 and an all-zero history, is
\* classified as the single label normal with value 1.0, its probability is 0
\* and afterwards ewma = 0, all slots are 0, the alert is off and the snapshot
\* written has phase RUN.
C16_NormalWindow ==
  (windows = 1 /\ result = <<[label |-> L_normal, value |-> One]>>) =>
    /\ probs = <<Zero>>
    /\ theft_prob_ewma = Zero
    /\ vote_hist[1] + vote_hist[2] + vote_hist[3] = 0
    /\ led = FALSE
    /\ Len(ml_log) = 4
    /\ ml_log[1] = <<"digitalWrite", FALSE>>
    /\ ml_log[4][2].alert = FALSE
    /\ ml_log[4][2].phase = "UI_RUN"
    /\ g_last_mtx => g_last.phase = "UI_RUN"

\* the state after that window, with the relay on and the snapshot stored
C16_Witness ==
  /\ windows = 1
  /\ result = <<[label |-> L_normal, value |-> One]>>
  /\ relay = TRUE
  /\ probs = <<Zero>>
  /\ g_last.phase = "UI_RUN"
  /\ g_last.relay = TRUE
  /\ g_last.V = Frac(230, 1)

C17_DistanceHalves(e0, e1, p) ==
  /\ 2 * Abs(e1[1] * p[2] - p[1] * e1[2]) * e0[2] = Abs(e0[1] * p[2] - p[1] * e0[2]) * e1[2]
  /\ (e0[1] * p[2] <= p[1] * e0[2]) =>
        (e0[1] * e1[2] <= e1[1] * e0[2] /\ e1[1] * p[2] <= p[1] * e1[2])
  /\ (e0[1] * p[2] >= p[1] * e0[2]) =>
        (e0[1] * e1[2] >= e1[1] * e0[2] /\ e1[1] * p[2] >= p[1] * e1[2])

C17_Step ==
  ClassifiedWindowStep =>
    C17_DistanceHalves(theft_prob_ewma, theft_prob_ewma', probs'[Len(probs')])

RECURSIVE Pow2(_)
Pow2(k) == IF k = 0 THEN 1 ELSE 2 * Pow2(k - 1)

\* after k windows of the same probability p, starting from 0: ewma = p (1 - 1/2^k)
C17_Repeated ==
  (Len(probs) > 0 /\ \A i \in 1..Len(probs) : probs[i] = probs[1]) =>
    theft_prob_ewma = RMul(probs[1], Frac(Pow2(Len(probs)) - 1, Pow2(Len(probs))))

\* C17: every successful window moves ewma toward that window's probability p:
\* the distance |ewma - p| halves and ewma stays on its side of p (no
\* overshoot); with the same p in every window so far the distance from the
\* initial 0 is p / 2^k after k windows.
C17_EwmaConverges == [](C17_Repeated) /\ [][C17_Step]_vars

\* four windows of probability 1: ewma = 15/16
C17_Witness ==
  /\ Len(probs) = 4
  /\ \A i \in 1..4 : probs[i] = One
  /\ theft_prob_ewma = Frac(15, 16)

\* the step is an iteration of the inner loop of taskML (one sample)
SampleStep == n' = n + 1

IsLoadingWrite(c) == c[1] = "set_metrics" /\ c[2].phase = "UI_LOADING"

\* C25: snapshot writes with phase LOADING occur only while the first window
\* is being collected: each of its N samples writes one, with progress
\* (samples so far) / N, and no sample of a later window writes a snapshot,
\* also in runs in which the classifier fails for some window.
C25_LoadingOnlyFirstWindow ==
  [][SampleStep =>
       IF windows = 0
         THEN /\ Len(ml_log') = 2
              /\ IsLoadingWrite(ml_log'[2])
              /\ ml_log'[2][2].progress = Frac(n + 1, kRawCount)
         ELSE \A i \in 1..Len(ml_log') : ~IsLoadingWrite(ml_log'[i])]_vars

\* C26: when a label containing "normal" is present in the classifier's
\* result and no theft / tamper mass is positive, the probability of the
\* window is 1 - p(normal), for every p(normal), 0 included, whether or not
\* labels containing "on" or "off" are present (stated here for the results
\* whose values sum to 1).
C26_RuleBWhenNormalPresent ==
  (/\ result # <<>> /\ Len(ml_log) = 4
   /\ C15_SumAny(result, {<<>>}) = One
   /\ C15_Present(result, {L_normal})
   /\ ~RGt(C15_SumAny(result, {L_theft, L_tamper}), Zero)) =>
    probs[Len(probs)] = RSub(One, C15_SumAny(result, {L_normal}))

\* 0 <= x <= 1
InUnitRange(x) == RGe(x, Zero) /\ RGe(One, x)

\* the snapshots handed to set_metrics by the last step of taskML
SnapshotsWritten ==
  {ml_log[i][2] : i \in {j \in 1..Len(ml_log) : ml_log[j][1] = "set_metrics"}}

\* C31: the theft probability and the progress of every snapshot (each one
\* handed to set_metrics, and the stored one) lie in [0,1], for every label
\* set, a label containing two keywords included, and every classifier result
\* whose values lie in [0,1] and sum to at most 1.
C31_SnapshotInUnitRange ==
  /\ \A m \in SnapshotsWritten : InUnitRange(m.theft) /\ InUnitRange(m.progress)
  /\ InUnitRange(g_last.theft) /\ InUnitRange(g_last.progress)

\* alert and phase agree, and a BOOT or LOADING snapshot carries the startup values
C34_Consistent(m) ==
  /\ m.alert <=> m.phase = "UI_ALERT"
  /\ m.phase \in {"UI_BOOT", "UI_LOADING"} =>
       /\ m.V = Zero /\ m.I = Zero /\ m.P = Zero /\ m.theft = Zero
       /\ m.alert = FALSE
       /\ m.relay = FALSE

\* C34: in every snapshot (each one handed to set_metrics, and the stored one)
\* alert is true iff the phase is ALERT, and a snapshot whose phase is BOOT or
\* LOADING has V = I = P = theft = 0, alert = false and relay = false, also
\* after a command switched the relay on and after a failed first window.
C34_SnapshotConsistent ==
  /\ C34_Consistent(g_last)
  /\ \A m \in SnapshotsWritten : C34_Consistent(m)

\* the first window failed, a command switched the relay on, and a sample of
\* the second window wrote a LOADING snapshot
C34_Witness ==
  /\ windows >= 1
  /\ probs = <<>>
  /\ relay
  /\ Len(ml_log) = 2 /\ IsLoadingWrite(ml_log[2])
  /\ g_last.phase = "UI_LOADING"

\* the stored phase never goes back: not to BOOT once left, not to LOADING
\* once RUN or ALERT
C35_Step ==
  /\ g_last.phase # "UI_BOOT" => g_last'.phase # "UI_BOOT"
  /\ g_last.phase \in {"UI_RUN", "UI_ALERT"} => g_last'.phase # "UI_LOADING"

\* a window has been classified: the stored phase is RUN or ALERT
C35_Classified == Len(probs) >= 1 => g_last.phase \in {"UI_RUN", "UI_ALERT"}

\* C35: the phase of the stored snapshot only moves forward (never BOOT again
\* once it has left BOOT, never LOADING again once it has been RUN or ALERT),
\* and from the first successfully classified window onward it is RUN or
\* ALERT, whatever the order of commands, samples and classifier failures.
C35_PhaseForward == [](C35_Classified) /\ [][C35_Step]_vars

\* the same statement for the firmware whose mutex was created
C35_PhaseForwardWithMutex ==
  [](g_last_mtx => C35_Classified) /\ [][C35_Step]_vars

----------------------------------------------------------------------------
(* SpecPack: taskML and the command worker for every window size N and     *)
(* number of axes A of the model header (static_assert: the frame size is   *)
(* a multiple of the window size), model with the single label normal       *)

InitPack ==
  /\ g_last = Startup
  /\ relay = FALSE
  /\ InitStore
  /\ InitCmd
  /\ InitDisplay
  /\ InitTime
  /\ InitHost
  /\ \E N \in 1..MaxRawCount : \E A \in 1..MaxAxes : InitMLOf(N, N * A)
  /\ ei_labels = <<L_normal>>

PackSample(rd) == windows < PackWindows /\ MLSample(rd)

NextPack ==
  \/ \E rd \in Readings : PackSample(rd)
  \/ \E err \in ErrCodes : MLClassifyFail(err)
  \/ \E res \in ResultsOf[ei_labels] : MLClassifyOk(res)
  \/ \E l \in {RELAY_ON_STR, RELAY_OFF_STR} : CommandLine(l)

SpecPack == InitPack /\ [][NextPack]_vars

\* C27: for every window, window size N and number of axes A, when the N-th
\* sample is packed the buffer has N * A slots, slot s * A + k holds value
\* k of sample s of this window (voltage, current, power, relay flag 0 or 1)
\* for k < 4 and k < A, and 0 for k >= 4, and every slot was written during
\* this window.
C27_FeaturePacking ==
  n = kRawCount =>
    /\ kTotalLen = kRawCount * kModelAxes
    /\ DOMAIN features = 0..(kRawCount * kModelAxes - 1)
    /\ Len(samples) = kRawCount
    /\ \A s \in 0..(kRawCount - 1) :
         /\ samples[s + 1][4] \in {Zero, One}
         /\ \A k \in 0..(kModelAxes - 1) :
              features[s * kModelAxes + k] =
                 IF k < 4 THEN samples[s + 1][k + 1] ELSE Zero
    /\ packed = DOMAIN features

\* the second window of a model with 3 samples of 6 axes is complete; the
\* relay was switched on during it and the readings differ from the first
\* window's
C27_Witness ==
  /\ windows = 1
  /\ kRawCount = 3 /\ kModelAxes = 6
  /\ n = kRawCount
  /\ features[0] = Frac(231, 1) /\ features[3] = Zero
  /\ features[6] = Frac(230, 1) /\ features[9] = One
  /\ features[17] = Zero

\* the same with fewer than four axes: the relay flag is not packed
C27_WitnessFewAxes ==
  /\ windows = 1
  /\ kRawCount = 2 /\ kModelAxes = 3
  /\ n = kRawCount
  /\ features[2] = Zero /\ features[5] = Frac(115, 1)

----------------------------------------------------------------------------
(* SpecTime: taskML with the kernel's tick count: any start tick, any       *)
(* period, and any number of ticks passing between two steps (sensor reads,  *)
(* the classifier, preemption by taskSerial)                                 *)

InitTimed ==
  /\ g_last = Startup
  /\ relay = FALSE
  /\ InitStore
  /\ InitCmd
  /\ InitML
  /\ InitDisplay
  /\ InitHost
  /\ \E p \in 1..MaxPeriod : \E t \in 0..(TickWrap - 1) : InitTimeOf(p, t)
  /\ ei_labels = <<L_normal>>

\* d ticks pass while taskML computes, or is preempted
TimePasses(d) ==
  /\ now' = (now + d) % TickWrap
  /\ UNCHANGED <<period, tick, tick_start>>
  /\ UNCHANGED outsideTime

TimedSample == windows < TimeWindows /\ MLSample([V |-> 230, mA |-> 500])

NextTime ==
  \/ \E d \in 1..MaxLate : TimePasses(d)
  \/ TimedSample
  \/ \E err \in ErrCodes : MLClassifyFail(err)
  \/ \E res \in ResultsOf[ei_labels] : MLClassifyOk(res)

SpecTime == InitTimed /\ [][NextTime]_vars

\* C30: after k calls of vTaskDelayUntil the scheduled wake time kept in
\* tick is the start tick plus k periods (on the wrapping tick count), in
\* every window and whatever time passed between the calls: k = the samples
\* of the completed windows plus those of the current one.
C30_DriftFreeWake ==
  tick = (tick_start + (windows * kRawCount + n) * period) % TickWrap

\* taskML is in its third window, its wake times have wrapped, and it is
\* running more than a period behind its schedule
C30_Witness ==
  /\ windows = 2 /\ n = 1
  /\ period = 3
  /\ tick < tick_start
  /\ now = (tick + 5) % TickWrap

----------------------------------------------------------------------------
(* SpecDecide: taskML alone, one model (normal / theft), one sensor reading, *)
(* classifier values on a finer grid                                        *)

DecideReading == [V |-> 230, mA |-> 500]

\* the classification arrays run_classifier may return for <<normal, theft>>:
\* the two values are multiples of 1/FineScale and sum to 1
DecideResults ==
  { << [label |-> L_normal, value |-> Frac(FineScale - b, FineScale)],
       [label |-> L_theft,  value |-> Frac(b, FineScale)] >> : b \in 0..FineScale }

DecideSample ==
  /\ windows < DecideWindows
  /\ MLSample(DecideReading)

NextDecide ==
  \/ DecideSample
  \/ \E err \in ErrCodes : MLClassifyFail(err)
  \/ \E res \in DecideResults : MLClassifyOk(res)

SpecDecide == InitOneModel /\ [][NextDecide]_vars

\* the second window's result res raises the alert with fewer than two votes
C11_RaisedBy(res) ==
  LET p == theft_metric_from_labels(res, relay)
      e == EwmaUpdate(theft_prob_ewma, p)
      h == VotePush(vote_hist, vote_hist_idx, p)
  IN  Alert(e, h) /\ h[1] + h[2] + h[3] < 2

\* C11: starting from ewma = 0 and an all-zero history, the ewma threshold can
\* raise the alert at the second classified window while fewer than two slots
\* are 1: when the first window has been classified with probability p1 and the
\* second is about to be, some classifier result raises the alert with fewer
\* than two votes exactly when 0.4 <= p1 < 0.5 (the spike then lifts ewma to
\* p1/4 + p2/2 >= 0.6), and such first windows occur.
C11_SpikeRaisesAlert ==
  (Len(probs) = 1 /\ windows = 1 /\ n = kRawCount) =>
    ( (\E res \in DecideResults : C11_RaisedBy(res))
      <=> (5 * probs[1][1] >= 2 * probs[1][2] /\ 2 * probs[1][1] < probs[1][2]) )

\* after the second window the indicator is on, ewma >= 0.6, one slot is 1
C11_Witness ==
  /\ Len(probs) = 2 /\ windows = 2
  /\ led = TRUE
  /\ vote_hist[1] + vote_hist[2] + vote_hist[3] < 2
  /\ 5 * theft_prob_ewma[1] > 3 * theft_prob_ewma[2]
  /\ ml_log[1] = <<"digitalWrite", TRUE>>

----------------------------------------------------------------------------
(* SpecVote: taskML alone, one model (normal / theft), one sensor reading,  *)
(* up to MaxWindows windows, classifier values multiples of 1/VoteScale     *)

VoteResults ==
  { << [label |-> L_normal, value |-> Frac(VoteScale - b, VoteScale)],
       [label |-> L_theft,  value |-> Frac(b, VoteScale)] >> : b \in 0..VoteScale }

NextVote ==
  \/ MLSample(DecideReading)
  \/ \E err \in ErrCodes : MLClassifyFail(err)
  \/ \E res \in VoteResults : MLClassifyOk(res)

SpecVote == InitOneModel /\ [][NextVote]_vars

\* the (up to three) most recent successfully classified windows
C33_LastThree == {k \in 1..Len(probs) : k > Len(probs) - 3}

\* the alert as the indicator shows it and as the snapshots carry it
C33_AlertOn ==
  \/ led
  \/ g_last.alert
  \/ \E m \in SnapshotsWritten : m.alert

\* C33: when every per-window probability so far lies in [0,1], a state whose
\* three history slots are all 0 has ewma < 0.6 and the alert off, and a state
\* with the alert on has a window with probability >= 0.5 among the last three
\* classified ones.
C33_ZeroVoteNoAlert ==
  (\A i \in 1..Len(probs) : InUnitRange(probs[i])) =>
    /\ vote_hist = <<0, 0, 0>> =>
         /\ 5 * theft_prob_ewma[1] < 3 * theft_prob_ewma[2]
         /\ ~C33_AlertOn
    /\ C33_AlertOn =>
         \E k \in C33_LastThree : 2 * probs[k][1] >= probs[k][2]

\* the first window had probability 1 and raised the alert; three windows
\* below 0.5 followed: the slots are 0 again, ewma is positive, the alert is off
C33_Witness ==
  /\ Len(probs) = 4
  /\ probs[1] = One
  /\ vote_hist = <<0, 0, 0>>
  /\ theft_prob_ewma[1] > 0
  /\ 3 * theft_prob_ewma[1] > theft_prob_ewma[2]
  /\ ~C33_AlertOn

----------------------------------------------------------------------------
(* SpecDisplay: taskDisplay with taskML (one model, one reading) and the     *)
(* command worker                                                           *)

NextDisplay ==
  \/ DisplayTick
  \/ DecideSample
  \/ \E err \in ErrCodes : MLClassifyFail(err)
  \/ \E res \in ResultsOf[ei_labels] : MLClassifyOk(res)
  \/ \E l \in {RELAY_ON_STR, RELAY_OFF_STR} : CommandLine(l)

SpecDisplay == InitOneModel /\ [][NextDisplay]_vars

\* C18: the relay text a display tick draws (LOADING and RUN views) is the
\* state of the relay output at that tick.
C18_DisplayShowsRelay ==
  [][DisplayTick =>
       (view'.kind \in {"LOADING", "RUN"} =>
          view'.relay = (IF relay' THEN "ON " ELSE "OFF"))]_vars

C19_Step ==
  DisplayTick =>
    /\ view'.kind \in {"BOOT", "LOADING", "ALERT", "RUN"}
    /\ view'.kind = "BOOT" <=> (g_last.phase = "UI_BOOT" /\ boot_frames < 20)
    /\ view'.kind # "BOOT" =>
         /\ view'.kind = "LOADING" <=> g_last.phase = "UI_LOADING"
         /\ view'.kind # "LOADING" =>
              /\ view'.kind = "ALERT" <=> g_last.phase = "UI_ALERT"
              /\ view'.kind # "ALERT" => view'.kind = "RUN"
    /\ boot_frames' = IF view'.kind = "BOOT" THEN boot_frames + 1 ELSE boot_frames

\* C19: a display tick draws exactly one of the four views, selected by the
\* phase of the snapshot it reads and the boot-frame counter: BOOT iff the
\* phase is BOOT and the counter is below 20, otherwise LOADING iff the phase is
\* LOADING, otherwise ALERT iff the phase is ALERT, otherwise RUN; the counter
\* advances on BOOT frames only.
C19_ViewDispatch == [][C19_Step]_vars

\* the BOOT budget is used up while the phase is still BOOT: the RUN view is drawn
C19_Witness ==
  /\ boot_frames = 20
  /\ g_last.phase = "UI_BOOT"
  /\ view.kind = "RUN"

C20_Step ==
  /\ DisplayTick => UNCHANGED g_last
  /\ g_last' # g_last => (n' # n \/ windows' # windows)

\* C20: no display tick changes the stored snapshot, in any phase and with the
\* BOOT budget used up or not; every change of the snapshot (hence of the
\* phase) is made by a step of taskML.
C20_DisplayNeverWrites == [][C20_Step]_vars

\* the BOOT budget was used up, later taskML moved the phase, and the display
\* follows it
C20_Witness ==
  /\ boot_frames = 20
  /\ g_last.phase = "UI_ALERT"
  /\ view.kind = "ALERT"
  /\ view.m = g_last

\* the RUN view of the startup snapshot: V, I, P and theft 0, an empty bar
C28_RunZero(v) ==
  /\ v.kind = "RUN"
  /\ v.m.V = Zero /\ v.m.I = Zero /\ v.m.P = Zero /\ v.m.theft = Zero
  /\ v.bar = 0

C28_Step ==
  /\ boot_frames' >= boot_frames
  /\ DisplayTick =>
       /\ view'.kind = "BOOT" =>
            /\ boot_frames < 20
            /\ view'.frame = boot_frames
            /\ boot_frames' = boot_frames + 1
       /\ (boot_frames = 20 /\ g_last.phase = "UI_BOOT") => C28_RunZero(view')

\* C28: once 20 BOOT frames are drawn while the phase is still BOOT, a tick
\* that reads phase BOOT draws the RUN view with zero metrics; BOOT is not
\* drawn again; the boot-frame counter never exceeds 20, never decreases and
\* advances by one on every BOOT frame, whose index it is, so that at most 20
\* BOOT frames are drawn in a run.
C28_BootBudgetExhausted ==
  /\ [](/\ boot_frames \in 0..20
        /\ (boot_frames = 20 /\ g_last.phase = "UI_BOOT") =>
             C28_RunZero(Render(GetMetrics, boot_frames)))
  /\ [][C28_Step]_vars

\* the 20 BOOT frames are drawn, the phase is still BOOT, a later tick drew
\* the RUN view of the zero snapshot, after a command switched the relay
C28_Witness ==
  /\ boot_frames = 20
  /\ g_last.phase = "UI_BOOT"
  /\ C28_RunZero(view)
  /\ relay

----------------------------------------------------------------------------
(* SpecBar: taskDisplay drawing a stored snapshot whose progress and theft  *)
(* are any multiples of 1/BarScale between -1 and 2, in any phase            *)

BarValues == {Frac(k, BarScale) : k \in (-BarScale)..(2 * BarScale)}

BarMetrics ==
  {[Startup EXCEPT !.phase = ph, !.progress = pr, !.theft = th] :
     ph \in {UiPhase[i] : i \in 1..Len(UiPhase)}, pr \in BarValues, th \in BarValues}

InitBar ==
  /\ g_last \in BarMetrics
  /\ relay = FALSE
  /\ InitStore
  /\ InitCmd
  /\ InitML
  /\ ei_labels = <<L_normal, L_theft>>
  /\ InitDisplay
  /\ InitTime
  /\ InitHost

NextBar == DisplayTick

SpecBar == InitBar /\ [][NextBar]_vars

\* w = floor(width * clamp(x, 0, 1))
C32_IsFloor(width, x, w) ==
  IF x[1] < 0 THEN w = 0
  ELSE IF x[1] > x[2] THEN w = width
  ELSE w * x[2] <= width * x[1] /\ width * x[1] < (w + 1) * x[2]

\* C32: the filled width of the bar of a LOADING view is
\* floor(124 * clamp(progress, 0, 1)): 0 for progress below 0, 124 for progress
\* above 1, exactly 62 for progress 0.5; the filled width of the bar of a RUN
\* view is floor(126 * clamp(theft, 0, 1)).
C32_BarFill ==
  /\ view.kind = "LOADING" =>
       /\ C32_IsFloor(124, view.m.progress, view.bar)
       /\ view.m.progress = <<1, 2>> => view.bar = 62
       /\ view.m.progress[1] < 0 => view.bar = 0
       /\ view.m.progress[1] > view.m.progress[2] => view.bar = 124
  /\ view.kind = "RUN" => C32_IsFloor(126, view.m.theft, view.bar)

\* a LOADING view drawn for progress 0.5: 62 pixels filled
C32_Witness ==
  /\ view.kind = "LOADING"
  /\ view.m.progress = <<1, 2>>
  /\ view.bar = 62

----------------------------------------------------------------------------
(* SpecHost: taskML and taskSerial of the device, and the dashboard that   *)
(* reads its lines and sends the commands of the relay button               *)

\* a sample, taken once the dashboard has read the line of the last window
HostSample ==
  /\ host_seen = windows
  /\ windows < HostWindows
  /\ MLSample(DecideReading)

NextHost ==
  \/ HostSample
  \/ \E err \in ErrCodes : MLClassifyFail(err)
  \/ \E res \in ResultsOf[ei_labels] : MLClassifyOk(res)
  \/ Poll
  \/ HostReceive
  \/ HandleRelayToggle
  \/ MapEffect

SpecHost == InitOneModel /\ [][NextHost]_vars

\* the step hands a DATA line to parseLine
ReceivesData == host_seen' # host_seen /\ Len(ml_log) = 4

\* C22: when a telemetry line is received that the device printed with the
\* relay on (after it answered OK:RELAY:ON), the dashboard's relay state is
\* ON, and OFF when it printed it with the relay off; the toggle sends
\* RELAY:OFF when the state is ON and RELAY:ON when it is OFF.
C22_ToggleBothWays ==
  [][/\ ReceivesData => relayOn' = ml_log[4][2].relay
     /\ host_lines' # host_lines =>
          rx' = rx \o (IF relayOn THEN RELAY_OFF_STR ELSE RELAY_ON_STR) \o <<LF>>]_vars

\* C23: every entry of the alert log has theft >= 0.6, and a received
\* telemetry sample appends an entry exactly when its theft is >= 0.6.
C23_AlertIffThreshold ==
  /\ [](\A i \in 1..Len(alerts) : RGe(alerts[i].theft, Frac(3, 5)))
  /\ [][ReceivesData =>
          (Len(alerts') = Len(alerts) + 1 <=> RGe(data'[1].theft, Frac(3, 5)))]_vars

\* C24: once the effect of MapView has run for the current alert list, every
\* alert of the list has its marker on the map, also the alerts appended
\* after the map was initialized.
C24_EveryAlertHasMarker == ~map_stale => markers = alerts

----------------------------------------------------------------------------
(* SpecRead: readLoop reading any text of up to MaxText characters, cut    *)
(* into chunks in any way                                                   *)

\* the chunks are texts over 'A', 'D', ' ', '\r', '\n' (no line of such a text
\* starts with "DATA:")
NextRead ==
  \E value \in UNION {[1..k -> {65, 68, 32, CR, LF}] :
                         k \in 1..(MaxText - Len(text_read))} :
    ReadChunk(value)

SpecRead == InitOneModel /\ [][NextRead]_vars

\* what readLoop does when the text read so far arrives in one chunk
C36_OneChunk == ReadStep(<<>>, text_read)

RECURSIVE C36_Concat(_)
C36_Concat(q) == IF q = <<>> THEN <<>> ELSE Head(q) \o C36_Concat(Tail(q))

\* the positions of the newlines of the text read so far
C36_Newlines == {i \in 1..Len(text_read) : text_read[i] = LF}

\* the position of the k-th newline (0 for k = 0)
C36_NewlineAt(k) ==
  IF k = 0 THEN 0
  ELSE CHOOSE i \in C36_Newlines : Cardinality({j \in C36_Newlines : j <= i}) = k

\* C36: whatever the chunks, the calls of parseLine made so far and the
\* buffer are those of readLoop reading the same text in one chunk: one call
\* per newline read, the k-th with the (trimmed) text between newline k-1 and
\* newline k, and the buffer holds the text after the last newline, which has
\* not been parsed.
C36_ChunkingIndependent ==
  /\ text_read = C36_Concat(delivered)
  /\ parse_log = C36_OneChunk.calls
  /\ buffer = C36_OneChunk.buffer
  /\ Len(parse_log) = Cardinality(C36_Newlines)
  /\ \A k \in 1..Len(parse_log) :
       parse_log[k] = Trim(SubSeq(text_read, C36_NewlineAt(k - 1) + 1, C36_NewlineAt(k) - 1))
  /\ buffer = SubSeq(text_read, C36_NewlineAt(Cardinality(C36_Newlines)) + 1, Len(text_read))

\* three chunks: the first ends inside a line, the second completes it with
\* "\r\n", the third is an unterminated fragment: one call, with the whole
\* line, and the fragment waits in the buffer
C36_Witness ==
  /\ delivered = << <<65>>, <<68, CR, LF>>, <<65>> >>
  /\ parse_log = << <<65, 68>> >>
  /\ buffer = <<65>>

----------------------------------------------------------------------------
(* SpecStore: the store under any interleaving of calls by the three tasks *)

StoreStep ==
  \/ \E w \in Tasks : \E m \in Args : SetCall(w, m)
  \/ \E w \in Tasks : SetTake(w)
  \/ \E w \in Tasks : SetNoMutex(w)
  \/ \E w \in Tasks : SetCopy(w)
  \/ \E w \in Tasks : SetGive(w)
  \/ \E w \in Tasks : GetCall(w)
  \/ \E w \in Tasks : GetTake(w)
  \/ \E w \in Tasks : GetNoMutex(w)
  \/ \E w \in Tasks : GetCopy(w)
  \/ \E w \in Tasks : GetGive(w)
  \/ \E w \in Tasks : Return(w)

NextStore == StoreStep

SpecStore == InitOneModel /\ [][NextStore]_vars

\* C1: with the mutex created, every snapshot get_metrics returns is, field for
\* field, the startup snapshot or the argument of one set_metrics call that has
\* completed; it never combines fields of two writes.
C1_NoTornRead ==
  g_last_mtx =>
    \A w \in Tasks : pc[w] = "get_ret" => loc[w] \in ({Startup} \cup written)

\* a read has returned a written snapshot while another task is in the middle of
\* its copy into g_last (g_last itself is a mix at that moment)
C1_Witness ==
  /\ g_last_mtx
  /\ \E w, v \in Tasks :
       /\ pc[w] = "get_ret" /\ loc[w] \in Args
       /\ pc[v] = "set_copy" /\ idx[v] \in 1..(Len(Fields) - 1)
       /\ g_last \notin ({Startup} \cup Args)

\* C2: with a null mutex handle both operations still take effect: a returned
\* set_metrics(m) has replaced the stored snapshot by m and a returned
\* get_metrics() holds the stored snapshot.
C2_DegradedOpsTakeEffect ==
  ~g_last_mtx =>
    \A w \in Tasks :
      /\ pc[w] = "set_ret" => g_last = loc[w]
      /\ pc[w] = "get_ret" => loc[w] = g_last

\* the steps of task w inside set_metrics / get_metrics
C29_StepOf(w) ==
  \/ \E m \in Args : SetCall(w, m)
  \/ SetTake(w) \/ SetNoMutex(w) \/ SetCopy(w) \/ SetGive(w)
  \/ GetCall(w) \/ GetTake(w) \/ GetNoMutex(w) \/ GetCopy(w) \/ GetGive(w)
  \/ Return(w)

\* task w is between its xSemaphoreTake and the return of its xSemaphoreGive
C29_Holding(w) ==
  \/ pc[w] \in {"set_copy", "set_give", "get_give"}
  \/ pc[w] = "get_copy" /\ g_last_mtx

\* task w is blocked in xSemaphoreTake
C29_WaitsOnLock(w) ==
  /\ pc[w] \in {"set_test", "get_test"}
  /\ g_last_mtx
  /\ mtx_owner \notin {NoOwner, w}

C29_State ==
  /\ \A w \in Tasks : mtx_owner = w <=> C29_Holding(w)
  /\ \A w, v \in Tasks : (C29_Holding(w) /\ C29_Holding(v)) => w = v
  /\ \A w \in Tasks : C29_Holding(w) => idx[w] \in 0..Len(Fields)
  /\ \A w \in Tasks : (ENABLED C29_StepOf(w)) \/ C29_WaitsOnLock(w)
  /\ \A w \in Tasks : C29_Holding(w) => ENABLED (SetCopy(w) \/ SetGive(w) \/ GetCopy(w) \/ GetGive(w))
  /\ ENABLED NextStore

C29_Step ==
  \A w \in Tasks :
    /\ (mtx_owner # w /\ mtx_owner' = w) =>
         /\ mtx_owner = NoOwner
         /\ idx[w] = 0 /\ idx'[w] = 0
    /\ (mtx_owner = w /\ mtx_owner' = w) =>
         \/ UNCHANGED <<pc[w], idx[w]>>
         \/ idx'[w] = idx[w] + 1 /\ pc[w] \in {"set_copy", "get_copy"}
    /\ (mtx_owner = w /\ mtx_owner' # w) =>
         /\ mtx_owner' = NoOwner
         /\ pc[w] \in {"set_give", "get_give"} /\ pc'[w] \in {"set_ret", "get_ret"}
         /\ idx[w] = Len(Fields)

\* C29: the mutex is held only for one copy of the struct: the task that took
\* it makes the Len(Fields) member copies and gives it back, with no other
\* step in between; at most one task holds it; a task that cannot step is
\* blocked in xSemaphoreTake on a mutex another task holds; the holder can
\* always step; some step is possible in every reachable state.
C29_LockHeldForOneCopy == [](C29_State) /\ [][C29_Step]_vars

\* one task is in the middle of its copy and the two others are blocked on the
\* mutex
C29_Witness ==
  /\ g_last_mtx
  /\ \E w \in Tasks :
       /\ pc[w] = "set_copy" /\ idx[w] = 3 /\ mtx_owner = w
       /\ \A v \in Tasks \ {w} : C29_WaitsOnLock(v) /\ ~ENABLED C29_StepOf(v)

----------------------------------------------------------------------------
(* SpecSched: taskSerial (priority 3) polling while taskML (2) and          *)
(* taskDisplay (1) are anywhere inside set_metrics / get_metrics            *)

\* the lines the host sends in SpecSched
SchedPool == {RELAY_ON_STR, RELAY_OFF_STR, <<88>>, <<>>}

\* taskML calls get_metrics and set_metrics, taskDisplay get_metrics only
SchedStoreStep(w) ==
  \/ w = "ML" /\ SetCall(w, ArgMetrics(1))
  \/ SetTake(w) \/ SetNoMutex(w) \/ SetCopy(w) \/ SetGive(w)
  \/ GetCall(w) \/ GetTake(w) \/ GetNoMutex(w) \/ GetCopy(w) \/ GetGive(w)
  \/ Return(w)

NextSched ==
  \/ \E l \in SchedPool : HostSendLine(l)
  \/ Poll
  \/ \E w \in {"ML", "Display"} : SchedStoreStep(w)

SpecSched == InitOneModel /\ [][NextSched]_vars

\* the lines of the byte sequence b that are terminated by LF
RECURSIVE C21_Lines(_, _)
C21_Lines(b, cur) ==
  IF b = <<>> THEN <<>>
  ELSE IF Head(b) = LF THEN <<cur>> \o C21_Lines(Tail(b), <<>>)
  ELSE C21_Lines(Tail(b), Append(cur, Head(b)))

C21_IsPrintln(c) == c[1] = "println"
C21_NonEmpty(l) == l # <<>>

C21_Reply(l) ==
  IF l = RELAY_ON_STR THEN "OK:RELAY:ON"
  ELSE IF l = RELAY_OFF_STR THEN "OK:RELAY:OFF"
  ELSE "ERR:UNKNOWN_CMD"

C21_State ==
  /\ pc["Serial"] = "idle"
  /\ mtx_owner # "Serial"
  /\ rx # <<>> => PollReady

C21_Step ==
  consumed' # consumed =>
    /\ rx' = <<>>
    /\ consumed' = consumed \o rx
    /\ UNCHANGED <<g_last, storeVars>>
    /\ LET lines   == SelectSeq(C21_Lines(buf \o rx, <<>>), C21_NonEmpty)
           replies == SelectSeq(poll_log', C21_IsPrintln)
       IN  /\ Len(replies) = Len(lines)
           /\ \A i \in 1..Len(lines) : replies[i][2] = C21_Reply(lines[i])

\* C21: taskSerial is never inside set_metrics / get_metrics and never holds
\* the mutex; an iteration that finds input is possible in every state,
\* whoever holds the mutex; it empties the receive buffer, answers every
\* complete non-empty line in it, in order, and leaves the store alone.
C21_CommandNeverStarved == [](C21_State) /\ [][C21_Step]_vars

\* a poll answered two command lines while taskML was in the middle of its
\* copy, and taskML still holds the mutex, with taskDisplay blocked on it
C21_Witness ==
  /\ poll_lock = "ML"
  /\ Len(poll_log) = 4
  /\ poll_log[2][2] = "OK:RELAY:ON" /\ poll_log[4][2] = "OK:RELAY:OFF"
  /\ mtx_owner = "ML" /\ pc["ML"] = "set_copy" /\ idx["ML"] = 3
  /\ pc["Display"] = "get_test"

----------------------------------------------------------------------------
(* SpecCmd: the command worker fed byte by byte *)

NextCmd ==
  \/ \E l \in LinePool : HostStartLine(l)
  \/ HostSendByte
  \/ HostSendCR
  \/ Poll

SpecCmd == InitOneModel /\ [][NextCmd]_vars

(* The input seen as lines *)

\* the lines of s that are terminated by LF, without the LF; cur collects the line being read
RECURSIVE LinesAcc(_, _)
LinesAcc(s, cur) ==
  IF s = <<>> THEN <<>>
  ELSE IF Head(s) = 10 THEN <<cur>> \o LinesAcc(Tail(s), <<>>)
  ELSE LinesAcc(Tail(s), Append(cur, Head(s)))

\* the bytes of s after its last LF
RECURSIVE PartialAcc(_, _)
PartialAcc(s, cur) ==
  IF s = <<>> THEN cur
  ELSE IF Head(s) = 10 THEN PartialAcc(Tail(s), <<>>)
  ELSE PartialAcc(Tail(s), Append(cur, Head(s)))

InputLines   == LinesAcc(consumed, <<>>)
InputPartial == PartialAcc(consumed, <<>>)

IsNotCR(c) == c # 13
StripCR(s) == SelectSeq(s, IsNotCR)
Take(s, k) == IF Len(s) <= k THEN s ELSE SubSeq(s, 1, k)

\* the calls the command worker made for input line number i, in order
CallsOfLine(i) ==
  LET IsOfLine(e) == e[3] = i
      es == SelectSeq(cmd_log, IsOfLine)
  IN  [j \in 1..Len(es) |-> <<es[j][1], es[j][2]>>]

IsPrintln(e) == e[1] = "println"

OnCalls  == <<<<"relayWrite", "true">>, <<"println", "OK:RELAY:ON">>>>
OffCalls == <<<<"relayWrite", "false">>, <<"println", "OK:RELAY:OFF">>>>
ErrCalls == <<<<"println", "ERR:UNKNOWN_CMD">>>>

\* the last k elements of s
LastK(s, k) == SubSeq(s, Len(s) - k + 1, Len(s))

\* C3: for every input line that is exactly RELAY:ON (RELAY:OFF) once carriage
\* returns are removed, the calls made for it are relayWrite(true) (false) and
\* then one println of OK:RELAY:ON (OK:RELAY:OFF), nothing else; they are made by
\* the poll that consumes the line's newline, and the relay then has that level.
C3_ValidCommandReply ==
  /\ \A i \in 1..Len(InputLines) :
       /\ StripCR(InputLines[i]) = RELAY_ON_STR  => CallsOfLine(i) = OnCalls
       /\ StripCR(InputLines[i]) = RELAY_OFF_STR => CallsOfLine(i) = OffCalls
  /\ (consumed # <<>> /\ consumed[Len(consumed)] = 10) =>
       LET k == Len(InputLines)
           l == StripCR(InputLines[k])
       IN  /\ l = RELAY_ON_STR =>
                /\ relay = TRUE
                /\ Len(poll_log) >= 2
                /\ LastK(poll_log, 2) = Tagged(OnCalls, k)
           /\ l = RELAY_OFF_STR =>
                /\ relay = FALSE
                /\ Len(poll_log) >= 2
                /\ LastK(poll_log, 2) = Tagged(OffCalls, k)

\* RELAY:ON was answered and switched the relay on, then RELAY:OFF (sent with a
\* carriage return) was answered and switched it off
C3_Witness ==
  /\ Len(InputLines) = 2
  /\ InputLines[1] = RELAY_ON_STR
  /\ StripCR(InputLines[2]) = RELAY_OFF_STR /\ InputLines[2] # RELAY_OFF_STR
  /\ cmd_log = Tagged(OnCalls, 1) \o Tagged(OffCalls, 2)
  /\ relay = FALSE
  /\ rx = <<>>

\* C4: for every line of arbitrary bytes other than newline that, as buffered
\* (carriage returns removed, cut to 31 bytes), is neither RELAY:ON nor RELAY:OFF:
\* one println of ERR:UNKNOWN_CMD if it is non-empty, no println if it is empty,
\* and no relay write in either case.
C4_UnknownLineReply ==
  \A i \in 1..Len(InputLines) :
    LET b == Take(StripCR(InputLines[i]), 31)
    IN  b \notin {RELAY_ON_STR, RELAY_OFF_STR} =>
          CallsOfLine(i) = IF b # <<>> THEN ErrCalls ELSE <<>>

\* C5: a step that consumes no newline makes no call (no reply, no relay write)
\* and leaves the relay as it is, whatever the number of bytes; no call is ever
\* made for a line whose newline has not been consumed; once a newline is consumed
\* the buffer is empty, and the calls made for a line are those the parser makes
\* for that line alone starting from an empty buffer.
C5_StateOk ==
  /\ \A j \in 1..Len(cmd_log) : cmd_log[j][3] <= Count(consumed, 10)
  /\ (consumed # <<>> /\ consumed[Len(consumed)] = 10) => buf = <<>>
  /\ \A i \in 1..Len(InputLines) :
       \A r \in BOOLEAN :
         Tagged(CallsOfLine(i), i) =
           HandleSerialInput([buf |-> <<>>, relay |-> r, log |-> <<>>, line |-> i],
                             InputLines[i] \o <<10>>).log

C5_StepOk ==
  Count(consumed', 10) = Count(consumed, 10) => (cmd_log' = cmd_log /\ relay' = relay)

C5_NoNewlineNoParse == [](C5_StateOk) /\ [][C5_StepOk]_vars

\* more bytes than the buffer holds were consumed without a newline, then the
\* newline, then a complete RELAY:ON line which was answered on its own
C5_Witness ==
  /\ Len(InputLines) = 2
  /\ Len(InputLines[1]) > 31
  /\ InputLines[2] = RELAY_ON_STR
  /\ CallsOfLine(2) = OnCalls
  /\ buf = <<>>

\* C6: the buffer never holds more than 31 bytes; it holds the first 31 bytes,
\* carriage returns not counted, of the line being read (later bytes are dropped,
\* the buffer is not reset); the calls made for a line are those the command
\* chain makes for its first 31 non-carriage-return bytes, with at most one reply.
C6_BufferBound ==
  /\ Len(buf) <= 31
  /\ buf = Take(StripCR(InputPartial), 31)
  /\ \A i \in 1..Len(InputLines) :
       /\ CallsOfLine(i) = LineDecision(Take(StripCR(InputLines[i]), 31))
       /\ Len(SelectSeq(CallsOfLine(i), IsPrintln)) <= 1

\* a line longer than the buffer was terminated and got exactly one reply, and
\* the next line is being read with the buffer full again
C6_Witness ==
  /\ Len(InputLines) = 1
  /\ Len(StripCR(InputLines[1])) > 31
  /\ CallsOfLine(1) = ErrCalls
  /\ Len(StripCR(InputPartial)) > 31
  /\ Len(buf) = 31

\* C7: the calls made (replies and relay writes, in order), the buffer and the
\* relay level are those the parser produces for the same input with every
\* carriage return removed.
C7_CarriageReturnIgnored ==
  LET st == HandleSerialInput(
              [buf |-> <<>>, relay |-> FALSE, log |-> <<>>, line |-> 1],
              StripCR(consumed))
  IN  /\ cmd_log = st.log
      /\ buf = st.buf
      /\ relay = st.relay

\* a RELAY:ON line with a carriage return inside it was answered OK:RELAY:ON
C7_Witness ==
  \E i \in 1..Len(InputLines) :
    /\ StripCR(InputLines[i]) = RELAY_ON_STR
    /\ \E j \in 2..Len(InputLines[i]) - 1 : InputLines[i][j] = 13
    /\ CallsOfLine(i) = OnCalls
    /\ relay = TRUE

====
